---------------------------- MODULE Spec2Model ----------------------------
(***************************************************************************)
(* The Kubernetes volume broker of eirini-persi-broker (broker/broker.go): *)
(* the lifecycle operations of KubeVolumeBroker over the persistent volume *)
(* claims of one namespace.  The broker keeps no state of its own; the     *)
(* store of claims is the only program state.                              *)
(***************************************************************************)
EXTENDS Naturals, Sequences, FiniteSets, TLC

VARIABLES
    catalog,      \* the plans of the broker's configuration, fixed at construction
    versioned,    \* whether the store the client talks to compares resource versions on
                  \* update (an API server does; the fake clientset of the tests does not)
    fault,        \* the store call of the next handler call that will fail with an I/O
                  \* error: "none", "get" or "write"
    store,        \* the PersistentVolumeClaims of the namespace, by name
    last,         \* the call that has returned and whose response the caller has not taken
                  \* yet: its arguments, the store it started from, the claim it read and
                  \* what it returned; NoCall between calls
    provisioned,  \* history: per instance, the details of its successful Provision (<<>> once deprovisioned)
    bound,        \* history: per instance and binding, the mount the successful Bind returned
    orphans,      \* history: per instance, the bindings that were live at its last successful
                  \* Deprovision and have not been bound again since
    external,     \* history: per instance, what another actor did to its resource since the
                  \* broker last created or deleted it: "none", "deleted" or "created"
    calls         \* per request in flight at once: the handler call it runs, step by step

vars == <<catalog, versioned, fault, store, last, provisioned, bound, orphans, external, calls>>

---------------------------------------------------------------------------
(* The identifiers the callers use.  NumBindings bounds the model: how many *)
(* binding identifiers there are.                                          *)
NumBindings == 2

InstanceIDs == {"i1", "i2"}
BindingNames == <<"b1", "b2", "b3", "b4">>
BindingIDs == {BindingNames[k] : k \in 1..NumBindings}

---------------------------------------------------------------------------
(* Go values.                                                              *)

\* a nil *string (PersistentVolumeClaimSpec.StorageClassName, Plan.StorageClass)
Nil == "<nil>"

\* an empty (or nil) map[string]string: the handlers never tell the two apart
EmptyMap == [k \in {} |-> ""]

MapPut(m, k, v) == [x \in (DOMAIN m) \cup {k} |-> IF x = k THEN v ELSE m[x]]

MapDelete(m, k) == [x \in (DOMAIN m) \ {k} |-> m[x]]

\* the error values the handlers return; NoError is Go's nil error
NoError == "<nil>"
ErrPlanIDRequired == "plan_id required"
ErrPlanNotRecognized == "plan_id not recognized"
ErrInstanceAlreadyExists == "instance already exists"
ErrInstanceDoesNotExist == "instance does not exist"
ErrBindingAlreadyExists == "binding already exists"
ErrBindingDoesNotExist == "binding does not exist"
ErrInvalidParameters == "error unmarshaling json user configuration"
ErrPlanHasNoDefaultSize == "plan doesn't have a default size"
ErrInvalidQuantity == "invalid quantity string"
ErrProvisionFailed == "error provisioning"
ErrDeprovisioning == "error deprovisioning"
ErrBinding == "error binding"
ErrUnbinding == "error unbinding"
ErrGettingInstance == "error getting instance"
ErrGettingBinding == "error getting binding"
ErrDeprovisionFailed == "error deleting persistent volume claim for deprovisioning"
ErrBindFailed == "error updating persistent volume claim annotations for binding"
ErrUnbindFailed == "error updating persistent volume claim annotations for unbinding"
ErrNilStorageClass == "pvc has a nil storage class"
ErrPlanLabelMissing == "plan-id label missing from pvc"
ErrServiceLabelMissing == "service-id label missing from pvc"

---------------------------------------------------------------------------
(* The static configuration.                                               *)

DefaultPlanID == "cbc1d629-00b8-4cf0-81cc-9b9f96635071"
DefaultServiceID == "747c021a-8a9f-41a0-adf0-27296246ac79"
DefaultOrgID == "6b07fc5a-a078-443c-9e27-18cbb687464a"
DefaultSpaceID == "ada81a23-dfa4-4bb0-9ba1-0ecf683c244f"

\* the plan the tests configure: id, name, storage class and free flag only
DefaultPlanConfiguration ==
    [ID |-> DefaultPlanID, Name |-> "fooPlan", Description |-> "",
     StorageClass |-> "storageClass", Free |-> TRUE,
     DefaultSize |-> "", DefaultAccessMode |-> ""]

\* a plan with a default size
GoldPlan ==
    [ID |-> "p1", Name |-> "gold", Description |-> "",
     StorageClass |-> "gold", Free |-> FALSE,
     DefaultSize |-> "1Gi", DefaultAccessMode |-> ""]

\* the catalog the broker is constructed with
DefaultCatalog == <<DefaultPlanConfiguration, GoldPlan>>

\* b.Config.ServiceConfiguration.Plans
Plans == catalog

---------------------------------------------------------------------------
(* Conversions.                                                            *)

\* resource.ParseQuantity: the canonical form of a well-formed quantity string
QuantityTable == ("1Gi" :> "1Gi") @@ ("2Gi" :> "2Gi") @@ ("1024Mi" :> "1Gi")

ParseQuantity(s) ==
    IF s \in DOMAIN QuantityTable
    THEN [err |-> FALSE, quantity |-> QuantityTable[s]]
    ELSE [err |-> TRUE, quantity |-> ""]

\* A raw parameter blob: empty, bytes that are no JSON object of strings, or
\* a JSON object given by its members.
NoParameters == [kind |-> "empty", members |-> EmptyMap]
MalformedParameters == [kind |-> "malformed", members |-> EmptyMap]
JSONObject(m) == [kind |-> "object", members |-> m]

Member(raw, key) == IF key \in DOMAIN raw.members THEN raw.members[key] ELSE ""

\* json.Unmarshal(raw, &userConfig) guarded by len(raw) > 0
UnmarshalUserConfiguration(raw) ==
    IF raw.kind = "empty" THEN [err |-> FALSE, Size |-> "", AccessMode |-> ""]
    ELSE IF raw.kind = "malformed" THEN [err |-> TRUE, Size |-> "", AccessMode |-> ""]
    ELSE [err |-> FALSE, Size |-> Member(raw, "size"), AccessMode |-> Member(raw, "access_mode")]

\* json.Unmarshal(raw, &userMount) guarded by len(raw) > 0
UnmarshalUserMountConfiguration(raw) ==
    IF raw.kind = "empty" THEN [err |-> FALSE, Directory |-> ""]
    ELSE IF raw.kind = "malformed" THEN [err |-> TRUE, Directory |-> ""]
    ELSE [err |-> FALSE, Directory |-> Member(raw, "dir")]

\* bindingIDAnnotation without the broker's prefix
bindingIDAnnotationShort(bindingID) == "binding-" \o bindingID

bindingIDAnnotation(bindingID) == "eirini-broker-binding-" \o bindingID

DefaultContainerDir(bindingID) == "/var/vcap/data/" \o bindingID

---------------------------------------------------------------------------
(* The store client: PersistentVolumeClaims(namespace).Get / Create /      *)
(* Update / Delete.  The store answers every call, but for the one that    *)
(* fault names, which fails with an I/O error.                             *)

\* StoreCreate that replaces a claim of the same name, as an apply would
StoreCreateOrReplace(st, pvc) ==
    IF fault = "write"
    THEN [store |-> st, err |-> TRUE]
    ELSE [store |-> MapPut(st, pvc.Name, pvc), err |-> FALSE]

StoreCreate(st, pvc) ==
    IF fault = "write" \/ pvc.Name \in DOMAIN st
    THEN [store |-> st, err |-> TRUE]
    ELSE [store |-> MapPut(st, pvc.Name, pvc), err |-> FALSE]

\* StoreUpdate that merges the annotations it is given into the stored ones, as a
\* patch would
StoreUpdateMergesAnnotations(st, pvc) ==
    IF fault # "write" /\ pvc.Name \in DOMAIN st
    THEN [store |-> [st EXCEPT ![pvc.Name] =
                        [pvc EXCEPT !.Annotations =
                            [k \in (DOMAIN pvc.Annotations) \cup (DOMAIN st[pvc.Name].Annotations) |->
                                IF k \in DOMAIN pvc.Annotations THEN pvc.Annotations[k]
                                ELSE st[pvc.Name].Annotations[k]]]],
          err |-> FALSE]
    ELSE [store |-> st, err |-> TRUE]

\* StoreUpdate that creates the claim when the store has none of its name, as an
\* apply would
StoreUpdateOrCreate(st, pvc) ==
    IF fault # "write"
    THEN [store |-> MapPut(st, pvc.Name, pvc), err |-> FALSE]
    ELSE [store |-> st, err |-> TRUE]

StoreUpdate(st, pvc) ==
    IF fault # "write" /\ pvc.Name \in DOMAIN st
    THEN [store |-> [st EXCEPT ![pvc.Name] = pvc], err |-> FALSE]
    ELSE [store |-> st, err |-> TRUE]

\* StoreDelete that reports success and leaves the claim in the store
StoreDeleteKeepsClaim(st, name) ==
    IF name \in DOMAIN st
    THEN [store |-> st, err |-> FALSE]
    ELSE [store |-> st, err |-> TRUE]

\* StoreDelete that empties the namespace, as a delete of the whole collection would
StoreDeleteCollection(st, name) ==
    IF name \in DOMAIN st
    THEN [store |-> EmptyMap, err |-> FALSE]
    ELSE [store |-> st, err |-> TRUE]

StoreDelete(st, name) ==
    IF fault # "write" /\ name \in DOMAIN st
    THEN [store |-> MapDelete(st, name), err |-> FALSE]
    ELSE [store |-> st, err |-> TRUE]

\* instanceExists that lists the claims of the namespace and takes the first one,
\* whatever its name
instanceExistsByListing(st, instanceID) ==
    IF DOMAIN st # {}
    THEN [volumeExists |-> TRUE, pvc |-> <<st[CHOOSE n \in DOMAIN st : TRUE]>>, err |-> FALSE]
    ELSE [volumeExists |-> FALSE, pvc |-> <<>>, err |-> FALSE]

\* instanceExists that answers "no such instance" from what the broker remembers
\* of its own Provision and Deprovision calls, and asks the store only otherwise
instanceExistsRemembered(st, instanceID) ==
    IF fault = "get"
    THEN [volumeExists |-> FALSE, pvc |-> <<>>, err |-> TRUE]
    ELSE IF provisioned[instanceID] = <<>>
    THEN [volumeExists |-> FALSE, pvc |-> <<>>, err |-> FALSE]
    ELSE IF instanceID \in DOMAIN st
    THEN [volumeExists |-> TRUE, pvc |-> <<st[instanceID]>>, err |-> FALSE]
    ELSE [volumeExists |-> FALSE, pvc |-> <<>>, err |-> FALSE]

\* instanceExists that takes every failure of the get for not-found
instanceExistsErrorIsAbsent(st, instanceID) ==
    IF fault # "get" /\ instanceID \in DOMAIN st
    THEN [volumeExists |-> TRUE, pvc |-> <<st[instanceID]>>, err |-> FALSE]
    ELSE [volumeExists |-> FALSE, pvc |-> <<>>, err |-> FALSE]

\* instanceExists: not-found is a plain false, any other failure of the get an
\* error; pvc is <<>> or <<the claim>>
instanceExists(st, instanceID) ==
    IF fault = "get"
    THEN [volumeExists |-> FALSE, pvc |-> <<>>, err |-> TRUE]
    ELSE IF instanceID \in DOMAIN st
    THEN [volumeExists |-> TRUE, pvc |-> <<st[instanceID]>>, err |-> FALSE]
    ELSE [volumeExists |-> FALSE, pvc |-> <<>>, err |-> FALSE]

---------------------------------------------------------------------------
(* The handlers, as functions of the store and the arguments.  Each gives  *)
(* the store after the call, the error and the spec returned, and the      *)
(* claim that instanceExists read.                                         *)

ZeroRet ==
    [IsAsync |-> FALSE, DashboardURL |-> "", PlanID |-> "", ServiceID |-> "",
     VolumeMounts |-> <<>>, Credentials |-> EmptyMap]

Outcome(st, err, ret, pvc) == [store |-> st, err |-> err, ret |-> ret, pvc |-> pvc]

\* the index of the first plan with this id, 0 when there is none
\* FindPlan that falls back on the first plan when no id matches
FindPlanOrFirst(planID) ==
    IF \E i \in 1..Len(Plans) : Plans[i].ID = planID
    THEN CHOOSE i \in 1..Len(Plans) :
            /\ Plans[i].ID = planID
            /\ \A j \in 1..(i - 1) : Plans[j].ID # planID
    ELSE 1

FindPlan(planID) ==
    IF \E i \in 1..Len(Plans) : Plans[i].ID = planID
    THEN CHOOSE i \in 1..Len(Plans) :
            /\ Plans[i].ID = planID
            /\ \A j \in 1..(i - 1) : Plans[j].ID # planID
    ELSE 0

\* NewClaim with the values of the service-id and plan-id labels exchanged
NewClaimSwappedLabels(instanceID, details, plan, accessMode, quantity) ==
    [Name |-> instanceID,
     Labels |-> ("service-id" :> details.PlanID) @@ ("plan-id" :> details.ServiceID)
                @@ ("organization-id" :> details.OrganizationGUID)
                @@ ("space-id" :> details.SpaceGUID),
     Annotations |-> EmptyMap,
     StorageClassName |-> plan.StorageClass,
     AccessModes |-> <<accessMode>>,
     Storage |-> quantity]

NewClaim(instanceID, details, plan, accessMode, quantity) ==
    [Name |-> instanceID,
     Labels |-> ("service-id" :> details.ServiceID) @@ ("plan-id" :> details.PlanID)
                @@ ("organization-id" :> details.OrganizationGUID)
                @@ ("space-id" :> details.SpaceGUID),
     Annotations |-> EmptyMap,
     StorageClassName |-> plan.StorageClass,
     AccessModes |-> <<accessMode>>,
     Storage |-> quantity]

ProvisionCreate(st, instanceID, details, plan, size, accessMode, pvc) ==
    LET q == ParseQuantity(size) IN
    IF q.err THEN Outcome(st, ErrInvalidQuantity, ZeroRet, pvc)
    ELSE LET c == StoreCreate(st, NewClaim(instanceID, details, plan, accessMode, q.quantity)) IN
         IF c.err THEN Outcome(st, ErrProvisionFailed, ZeroRet, pvc)
         ELSE Outcome(c.store, NoError, ZeroRet, pvc)

\* ProvisionCall without the existence check: an existing claim shows as a failed create
ProvisionCallNoExistenceCheck(st, instanceID, details) ==
    IF details.PlanID = "" THEN Outcome(st, ErrPlanIDRequired, ZeroRet, <<>>)
    ELSE IF FindPlan(details.PlanID) = 0 THEN Outcome(st, ErrPlanNotRecognized, ZeroRet, <<>>)
    ELSE LET plan == Plans[FindPlan(details.PlanID)]
             userConfig == UnmarshalUserConfiguration(details.RawParameters)
             size == IF userConfig.Size = "" THEN plan.DefaultSize ELSE userConfig.Size
             mode == IF userConfig.AccessMode = "" THEN plan.DefaultAccessMode
                     ELSE userConfig.AccessMode
             accessMode == IF mode = "" THEN "ReadWriteMany" ELSE mode
         IN  IF userConfig.err THEN Outcome(st, ErrInvalidParameters, ZeroRet, <<>>)
             ELSE IF size = "" THEN Outcome(st, ErrPlanHasNoDefaultSize, ZeroRet, <<>>)
             ELSE ProvisionCreate(st, instanceID, details, plan, size, accessMode, <<>>)

\* ProvisionCall that takes the plan's default size and access mode where the plan
\* has them, and the user's only otherwise
ProvisionCallPlanDefaultsFirst(st, instanceID, details) ==
    IF details.PlanID = "" THEN Outcome(st, ErrPlanIDRequired, ZeroRet, <<>>)
    ELSE IF FindPlan(details.PlanID) = 0 THEN Outcome(st, ErrPlanNotRecognized, ZeroRet, <<>>)
    ELSE LET plan == Plans[FindPlan(details.PlanID)]
             ex == instanceExists(st, instanceID)
             userConfig == UnmarshalUserConfiguration(details.RawParameters)
             size == IF plan.DefaultSize = "" THEN userConfig.Size ELSE plan.DefaultSize
             mode == IF plan.DefaultAccessMode = "" THEN userConfig.AccessMode
                     ELSE plan.DefaultAccessMode
             accessMode == IF mode = "" THEN "ReadWriteMany" ELSE mode
         IN  IF ex.err THEN Outcome(st, ErrProvisionFailed, ZeroRet, ex.pvc)
             ELSE IF ex.volumeExists THEN Outcome(st, ErrInstanceAlreadyExists, ZeroRet, ex.pvc)
             ELSE IF userConfig.err THEN Outcome(st, ErrInvalidParameters, ZeroRet, ex.pvc)
             ELSE IF size = "" THEN Outcome(st, ErrPlanHasNoDefaultSize, ZeroRet, ex.pvc)
             ELSE ProvisionCreate(st, instanceID, details, plan, size, accessMode, ex.pvc)

\* ProvisionCall that looks the instance up before it resolves the plan
ProvisionCallExistenceFirst(st, instanceID, details) ==
    LET ex == instanceExists(st, instanceID) IN
    IF ex.err THEN Outcome(st, ErrProvisionFailed, ZeroRet, ex.pvc)
    ELSE IF ex.volumeExists THEN Outcome(st, ErrInstanceAlreadyExists, ZeroRet, ex.pvc)
    ELSE IF details.PlanID = "" THEN Outcome(st, ErrPlanIDRequired, ZeroRet, ex.pvc)
    ELSE IF FindPlan(details.PlanID) = 0 THEN Outcome(st, ErrPlanNotRecognized, ZeroRet, ex.pvc)
    ELSE LET plan == Plans[FindPlan(details.PlanID)]
             userConfig == UnmarshalUserConfiguration(details.RawParameters)
             size == IF userConfig.Size = "" THEN plan.DefaultSize ELSE userConfig.Size
             mode == IF userConfig.AccessMode = "" THEN plan.DefaultAccessMode
                     ELSE userConfig.AccessMode
             accessMode == IF mode = "" THEN "ReadWriteMany" ELSE mode
         IN  IF userConfig.err THEN Outcome(st, ErrInvalidParameters, ZeroRet, ex.pvc)
             ELSE IF size = "" THEN Outcome(st, ErrPlanHasNoDefaultSize, ZeroRet, ex.pvc)
             ELSE ProvisionCreate(st, instanceID, details, plan, size, accessMode, ex.pvc)

ProvisionCall(st, instanceID, details) ==
    IF details.PlanID = "" THEN Outcome(st, ErrPlanIDRequired, ZeroRet, <<>>)
    ELSE IF FindPlan(details.PlanID) = 0 THEN Outcome(st, ErrPlanNotRecognized, ZeroRet, <<>>)
    ELSE LET plan == Plans[FindPlan(details.PlanID)]
             ex == instanceExists(st, instanceID)
             userConfig == UnmarshalUserConfiguration(details.RawParameters)
             size == IF userConfig.Size = "" THEN plan.DefaultSize ELSE userConfig.Size
             mode == IF userConfig.AccessMode = "" THEN plan.DefaultAccessMode
                     ELSE userConfig.AccessMode
             accessMode == IF mode = "" THEN "ReadWriteMany" ELSE mode
         IN  IF ex.err THEN Outcome(st, ErrProvisionFailed, ZeroRet, ex.pvc)
             ELSE IF ex.volumeExists THEN Outcome(st, ErrInstanceAlreadyExists, ZeroRet, ex.pvc)
             ELSE IF userConfig.err THEN Outcome(st, ErrInvalidParameters, ZeroRet, ex.pvc)
             ELSE IF size = "" THEN Outcome(st, ErrPlanHasNoDefaultSize, ZeroRet, ex.pvc)
             ELSE ProvisionCreate(st, instanceID, details, plan, size, accessMode, ex.pvc)

\* DeprovisionCall without the existence check: the delete's error is all it reports
DeprovisionCallNoExistenceCheck(st, instanceID) ==
    LET ex == instanceExists(st, instanceID)
        d == StoreDelete(st, instanceID)
    IN  IF d.err THEN Outcome(st, ErrDeprovisionFailed, ZeroRet, ex.pvc)
        ELSE Outcome(d.store, NoError, ZeroRet, ex.pvc)

DeprovisionCall(st, instanceID) ==
    LET ex == instanceExists(st, instanceID) IN
    IF ex.err THEN Outcome(st, ErrDeprovisioning, ZeroRet, ex.pvc)
    ELSE IF ~ex.volumeExists THEN Outcome(st, ErrInstanceDoesNotExist, ZeroRet, ex.pvc)
    ELSE LET d == StoreDelete(st, instanceID) IN
         IF d.err THEN Outcome(st, ErrDeprovisionFailed, ZeroRet, ex.pvc)
         ELSE Outcome(d.store, NoError, ZeroRet, ex.pvc)

VolumeMount(storageClassName, containerDir, name) ==
    [Driver |-> storageClassName, ContainerDir |-> containerDir, Mode |-> "rw",
     DeviceType |-> "shared", Device |-> [VolumeId |-> name]]

\* Bind from the update on: the annotation is written, then the storage class is looked at
\* BindUpdate that sets the annotation map to the new annotation alone
BindUpdateReplacesAnnotations(st, pvc, bindingID, containerDir) ==
    LET new == [pvc EXCEPT !.Annotations =
                    MapPut(EmptyMap, bindingIDAnnotation(bindingID), containerDir)]
        u == StoreUpdate(st, new)
    IN  IF u.err THEN Outcome(st, ErrBindFailed, ZeroRet, <<pvc>>)
        ELSE IF new.StorageClassName = Nil
             THEN Outcome(u.store, ErrNilStorageClass, ZeroRet, <<pvc>>)
        ELSE Outcome(u.store, NoError,
                     [ZeroRet EXCEPT
                        !.Credentials = ("volume_id" :> new.Name),
                        !.VolumeMounts =
                            <<VolumeMount(new.StorageClassName, containerDir, new.Name)>>],
                     <<pvc>>)

\* BindUpdate that looks at the storage class before it writes the annotation
BindUpdateValidatesFirst(st, pvc, bindingID, containerDir) ==
    LET new == [pvc EXCEPT !.Annotations =
                    MapPut(pvc.Annotations, bindingIDAnnotation(bindingID), containerDir)]
        u == StoreUpdate(st, new)
    IN  IF new.StorageClassName = Nil
        THEN Outcome(st, ErrNilStorageClass, ZeroRet, <<pvc>>)
        ELSE IF u.err THEN Outcome(st, ErrBindFailed, ZeroRet, <<pvc>>)
        ELSE Outcome(u.store, NoError,
                     [ZeroRet EXCEPT
                        !.Credentials = ("volume_id" :> new.Name),
                        !.VolumeMounts =
                            <<VolumeMount(new.StorageClassName, containerDir, new.Name)>>],
                     <<pvc>>)

BindUpdate(st, pvc, bindingID, containerDir) ==
    LET new == [pvc EXCEPT !.Annotations =
                    MapPut(pvc.Annotations, bindingIDAnnotation(bindingID), containerDir)]
        u == StoreUpdate(st, new)
    IN  IF u.err THEN Outcome(st, ErrBindFailed, ZeroRet, <<pvc>>)
        ELSE IF new.StorageClassName = Nil
             THEN Outcome(u.store, ErrNilStorageClass, ZeroRet, <<pvc>>)
        ELSE Outcome(u.store, NoError,
                     [ZeroRet EXCEPT
                        !.Credentials = ("volume_id" :> new.Name),
                        !.VolumeMounts =
                            <<VolumeMount(new.StorageClassName, containerDir, new.Name)>>],
                     <<pvc>>)

\* BindCall without the check for an annotation of the binding: it writes over it
BindCallOverwrites(st, instanceID, bindingID, details) ==
    LET ex == instanceExists(st, instanceID) IN
    IF ~ex.volumeExists THEN Outcome(st, ErrInstanceDoesNotExist, ZeroRet, ex.pvc)
    ELSE LET pvc == ex.pvc[1]
             userMount == UnmarshalUserMountConfiguration(details.RawParameters)
             containerDir == IF userMount.Directory = "" THEN DefaultContainerDir(bindingID)
                             ELSE userMount.Directory
         IN  IF userMount.err THEN Outcome(st, ErrInvalidParameters, ZeroRet, ex.pvc)
             ELSE BindUpdate(st, pvc, bindingID, containerDir)

BindCall(st, instanceID, bindingID, details) ==
    LET ex == instanceExists(st, instanceID) IN
    IF ex.err THEN Outcome(st, ErrBinding, ZeroRet, ex.pvc)
    ELSE IF ~ex.volumeExists THEN Outcome(st, ErrInstanceDoesNotExist, ZeroRet, ex.pvc)
    ELSE LET pvc == ex.pvc[1]
             userMount == UnmarshalUserMountConfiguration(details.RawParameters)
             containerDir == IF userMount.Directory = "" THEN DefaultContainerDir(bindingID)
                             ELSE userMount.Directory
         IN  IF bindingIDAnnotation(bindingID) \in DOMAIN pvc.Annotations
             THEN Outcome(st, ErrBindingAlreadyExists, ZeroRet, ex.pvc)
             ELSE IF userMount.err THEN Outcome(st, ErrInvalidParameters, ZeroRet, ex.pvc)
             ELSE BindUpdate(st, pvc, bindingID, containerDir)

\* UnbindCall without the checks for the annotation: it deletes the key and updates
UnbindCallNoAnnotationCheck(st, instanceID, bindingID) ==
    LET ex == instanceExists(st, instanceID) IN
    IF ~ex.volumeExists THEN Outcome(st, ErrInstanceDoesNotExist, ZeroRet, ex.pvc)
    ELSE LET pvc == ex.pvc[1]
             new == [pvc EXCEPT !.Annotations =
                         MapDelete(pvc.Annotations, bindingIDAnnotation(bindingID))]
             u == StoreUpdate(st, new)
         IN  IF u.err THEN Outcome(st, ErrUnbindFailed, ZeroRet, ex.pvc)
             ELSE Outcome(u.store, NoError, ZeroRet, ex.pvc)

\* UnbindCall that empties the annotation map where it should delete one key
UnbindCallClearsAnnotations(st, instanceID, bindingID) ==
    LET ex == instanceExists(st, instanceID) IN
    IF ~ex.volumeExists THEN Outcome(st, ErrInstanceDoesNotExist, ZeroRet, ex.pvc)
    ELSE LET pvc == ex.pvc[1] IN
         IF Cardinality(DOMAIN pvc.Annotations) = 0
         THEN Outcome(st, ErrBindingDoesNotExist, ZeroRet, ex.pvc)
         ELSE IF bindingIDAnnotation(bindingID) \notin DOMAIN pvc.Annotations
         THEN Outcome(st, ErrBindingDoesNotExist, ZeroRet, ex.pvc)
         ELSE LET new == [pvc EXCEPT !.Annotations = EmptyMap]
                  u == StoreUpdate(st, new)
              IN  IF u.err THEN Outcome(st, ErrUnbindFailed, ZeroRet, ex.pvc)
                  ELSE Outcome(u.store, NoError, ZeroRet, ex.pvc)

UnbindCall(st, instanceID, bindingID) ==
    LET ex == instanceExists(st, instanceID) IN
    IF ex.err THEN Outcome(st, ErrUnbinding, ZeroRet, ex.pvc)
    ELSE IF ~ex.volumeExists THEN Outcome(st, ErrInstanceDoesNotExist, ZeroRet, ex.pvc)
    ELSE LET pvc == ex.pvc[1] IN
         IF Cardinality(DOMAIN pvc.Annotations) = 0
         THEN Outcome(st, ErrBindingDoesNotExist, ZeroRet, ex.pvc)
         ELSE IF bindingIDAnnotation(bindingID) \notin DOMAIN pvc.Annotations
         THEN Outcome(st, ErrBindingDoesNotExist, ZeroRet, ex.pvc)
         ELSE LET new == [pvc EXCEPT !.Annotations =
                              MapDelete(pvc.Annotations, bindingIDAnnotation(bindingID))]
                  u == StoreUpdate(st, new)
              IN  IF u.err THEN Outcome(st, ErrUnbindFailed, ZeroRet, ex.pvc)
                  ELSE Outcome(u.store, NoError, ZeroRet, ex.pvc)

GetInstanceCall(st, instanceID) ==
    LET ex == instanceExists(st, instanceID) IN
    IF ex.err THEN Outcome(st, ErrGettingInstance, ZeroRet, ex.pvc)
    ELSE IF ~ex.volumeExists THEN Outcome(st, ErrInstanceDoesNotExist, ZeroRet, ex.pvc)
    ELSE LET pvc == ex.pvc[1] IN
         IF "plan-id" \notin DOMAIN pvc.Labels
         THEN Outcome(st, ErrPlanLabelMissing, ZeroRet, ex.pvc)
         ELSE IF "service-id" \notin DOMAIN pvc.Labels
         THEN Outcome(st, ErrServiceLabelMissing,
                      [ZeroRet EXCEPT !.PlanID = pvc.Labels["plan-id"]], ex.pvc)
         ELSE Outcome(st, NoError,
                      [ZeroRet EXCEPT !.PlanID = pvc.Labels["plan-id"],
                                      !.ServiceID = pvc.Labels["service-id"]], ex.pvc)

\* GetBindingCall that derives the container path from the binding identifier
\* and does not read the annotation's value
GetBindingCallDerivedDir(st, instanceID, bindingID) ==
    LET ex == instanceExists(st, instanceID) IN
    IF ~ex.volumeExists THEN Outcome(st, ErrInstanceDoesNotExist, ZeroRet, ex.pvc)
    ELSE LET pvc == ex.pvc[1] IN
         IF Cardinality(DOMAIN pvc.Annotations) = 0
         THEN Outcome(st, ErrBindingDoesNotExist, ZeroRet, ex.pvc)
         ELSE IF bindingIDAnnotation(bindingID) \notin DOMAIN pvc.Annotations
         THEN Outcome(st, ErrBindingDoesNotExist, ZeroRet, ex.pvc)
         ELSE IF pvc.StorageClassName = Nil
         THEN Outcome(st, ErrNilStorageClass, ZeroRet, ex.pvc)
         ELSE Outcome(st, NoError,
                      [ZeroRet EXCEPT !.VolumeMounts =
                          <<VolumeMount(pvc.StorageClassName,
                                        DefaultContainerDir(bindingID), pvc.Name)>>],
                      ex.pvc)

\* GetBindingCall that takes the annotation off the claim once it has read it
GetBindingCallConsumes(st, instanceID, bindingID) ==
    LET ex == instanceExists(st, instanceID) IN
    IF ~ex.volumeExists THEN Outcome(st, ErrInstanceDoesNotExist, ZeroRet, ex.pvc)
    ELSE LET pvc == ex.pvc[1] IN
         IF Cardinality(DOMAIN pvc.Annotations) = 0
         THEN Outcome(st, ErrBindingDoesNotExist, ZeroRet, ex.pvc)
         ELSE IF bindingIDAnnotation(bindingID) \notin DOMAIN pvc.Annotations
         THEN Outcome(st, ErrBindingDoesNotExist, ZeroRet, ex.pvc)
         ELSE IF pvc.StorageClassName = Nil
         THEN Outcome(st, ErrNilStorageClass, ZeroRet, ex.pvc)
         ELSE Outcome(StoreUpdate(st, [pvc EXCEPT !.Annotations =
                          MapDelete(pvc.Annotations, bindingIDAnnotation(bindingID))]).store,
                      NoError,
                      [ZeroRet EXCEPT !.VolumeMounts =
                          <<VolumeMount(pvc.StorageClassName,
                                        pvc.Annotations[bindingIDAnnotation(bindingID)],
                                        pvc.Name)>>],
                      ex.pvc)

GetBindingCall(st, instanceID, bindingID) ==
    LET ex == instanceExists(st, instanceID) IN
    IF ex.err THEN Outcome(st, ErrGettingBinding, ZeroRet, ex.pvc)
    ELSE IF ~ex.volumeExists THEN Outcome(st, ErrInstanceDoesNotExist, ZeroRet, ex.pvc)
    ELSE LET pvc == ex.pvc[1] IN
         IF Cardinality(DOMAIN pvc.Annotations) = 0
         THEN Outcome(st, ErrBindingDoesNotExist, ZeroRet, ex.pvc)
         ELSE IF bindingIDAnnotation(bindingID) \notin DOMAIN pvc.Annotations
         THEN Outcome(st, ErrBindingDoesNotExist, ZeroRet, ex.pvc)
         ELSE IF pvc.StorageClassName = Nil
         THEN Outcome(st, ErrNilStorageClass, ZeroRet, ex.pvc)
         ELSE Outcome(st, NoError,
                      [ZeroRet EXCEPT !.VolumeMounts =
                          <<VolumeMount(pvc.StorageClassName,
                                        pvc.Annotations[bindingIDAnnotation(bindingID)],
                                        pvc.Name)>>],
                      ex.pvc)

\* Update, LastOperation and LastBindingOperation: each returns its zero spec and
\* nil, and has no other statement
\* UpdateCall that looks the instance up first, as the other handlers do
UpdateCallChecksInstance(st, instanceID, details) ==
    LET ex == instanceExists(st, instanceID) IN
    IF ~ex.volumeExists THEN Outcome(st, ErrInstanceDoesNotExist, ZeroRet, ex.pvc)
    ELSE Outcome(st, NoError, ZeroRet, ex.pvc)

UpdateCall(st, instanceID, details) == Outcome(st, NoError, ZeroRet, <<>>)

LastOperationCall(st, instanceID, details) == Outcome(st, NoError, ZeroRet, <<>>)

LastBindingOperationCall(st, instanceID, bindingID, details) ==
    Outcome(st, NoError, ZeroRet, <<>>)

---------------------------------------------------------------------------
(* What the callers send.                                                  *)

RequestPlanIDs == {"", "foo", DefaultPlanID, "p1"}

ProvisionParameters ==
    {NoParameters, MalformedParameters,
     JSONObject(("size" :> "2Gi") @@ ("access_mode" :> "ReadOnlyMany")),
     JSONObject("size" :> "bad")}

ProvisionInputs ==
    [ServiceID : {DefaultServiceID}, PlanID : RequestPlanIDs,
     OrganizationGUID : {DefaultOrgID}, SpaceGUID : {DefaultSpaceID},
     RawParameters : ProvisionParameters]

DeprovisionInputs == [PlanID : {DefaultPlanID, "foo"}, ServiceID : {DefaultServiceID}]

BindInputs ==
    [RawParameters : {NoParameters, MalformedParameters, JSONObject("dir" :> "/mnt")}]

UpdateInputs ==
    [ServiceID : {DefaultServiceID}, PlanID : {DefaultPlanID, "foo"},
     RawParameters : {NoParameters, MalformedParameters}]

PollInputs == [OperationData : {"", "op"}]

NoDetails == [none |-> TRUE]

---------------------------------------------------------------------------
(* The operations: each action is one whole call of a handler, made when   *)
(* the response of the call before it has been taken.                      *)

NoCall ==
    [op |-> "none", instanceID |-> "", bindingID |-> "", details |-> NoDetails,
     err |-> NoError, ret |-> ZeroRet, pvc |-> <<>>, pre |-> EmptyMap,
     fault |-> "none", external |-> "none"]

\* the requests the HTTP front end can have in flight at once
Requests == {"r1", "r2"}

\* a request slot with no handler running
NoRequest ==
    [pc |-> "idle", op |-> "none", instanceID |-> "", bindingID |-> "",
     details |-> NoDetails, seen |-> EmptyMap, reached |-> FALSE, stale |-> FALSE,
     disturbed |-> FALSE, gone |-> FALSE, err |-> NoError, ret |-> ZeroRet, log |-> <<>>]

Idle == last = NoCall

Returned(op, instanceID, bindingID, details, r) ==
    [op |-> op, instanceID |-> instanceID, bindingID |-> bindingID,
     details |-> details, err |-> r.err, ret |-> r.ret, pvc |-> r.pvc, pre |-> store,
     fault |-> fault, external |-> external[instanceID]]

Init ==
    /\ catalog = DefaultCatalog
    /\ versioned = FALSE
    /\ fault = "none"
    /\ external = [i \in InstanceIDs |-> "none"]
    /\ calls = [r \in Requests |-> NoRequest]
    /\ store = EmptyMap
    /\ last = NoCall
    /\ provisioned = [i \in InstanceIDs |-> <<>>]
    /\ bound = [i \in InstanceIDs |-> [b \in BindingIDs |-> <<>>]]
    /\ orphans = [i \in InstanceIDs |-> {}]

Provision(instanceID, details) ==
    LET r == ProvisionCall(store, instanceID, details) IN
    /\ Idle
    /\ UNCHANGED <<catalog, versioned, calls>>
    /\ fault' = "none"
    /\ store' = r.store
    /\ last' = Returned("Provision", instanceID, "", details, r)
    /\ provisioned' =
         IF r.err = NoError
         THEN [provisioned EXCEPT ![instanceID] =
                  <<[PlanID |-> details.PlanID, ServiceID |-> details.ServiceID]>>]
         ELSE provisioned
    /\ external' = IF r.err = NoError THEN [external EXCEPT ![instanceID] = "none"] ELSE external
    /\ UNCHANGED <<bound, orphans>>

Deprovision(instanceID, details) ==
    LET r == DeprovisionCall(store, instanceID) IN
    /\ Idle
    /\ UNCHANGED <<catalog, versioned, calls>>
    /\ fault' = "none"
    /\ store' = r.store
    /\ last' = Returned("Deprovision", instanceID, "", details, r)
    /\ provisioned' =
         IF r.err = NoError THEN [provisioned EXCEPT ![instanceID] = <<>>] ELSE provisioned
    /\ external' = IF r.err = NoError THEN [external EXCEPT ![instanceID] = "none"] ELSE external
    /\ orphans' =
         IF r.err = NoError
         THEN [orphans EXCEPT ![instanceID] =
                  {b \in BindingIDs : bound[instanceID][b] # <<>>}]
         ELSE orphans
    /\ bound' =
         IF r.err = NoError
         THEN [bound EXCEPT ![instanceID] = [b \in BindingIDs |-> <<>>]]
         ELSE bound

Bind(instanceID, bindingID, details) ==
    LET r == BindCall(store, instanceID, bindingID, details) IN
    /\ Idle
    /\ UNCHANGED <<catalog, versioned, calls>>
    /\ fault' = "none"
    /\ store' = r.store
    /\ last' = Returned("Bind", instanceID, bindingID, details, r)
    /\ bound' =
         IF r.err = NoError
         THEN [bound EXCEPT ![instanceID][bindingID] = r.ret.VolumeMounts]
         ELSE bound
    /\ orphans' =
         IF r.err = NoError
         THEN [orphans EXCEPT ![instanceID] = @ \ {bindingID}]
         ELSE orphans
    /\ UNCHANGED <<provisioned, external>>

Unbind(instanceID, bindingID) ==
    LET r == UnbindCall(store, instanceID, bindingID) IN
    /\ Idle
    /\ UNCHANGED <<catalog, versioned, calls>>
    /\ fault' = "none"
    /\ store' = r.store
    /\ last' = Returned("Unbind", instanceID, bindingID, NoDetails, r)
    /\ bound' =
         IF r.err = NoError THEN [bound EXCEPT ![instanceID][bindingID] = <<>>] ELSE bound
    /\ UNCHANGED <<provisioned, orphans, external>>

GetInstance(instanceID) ==
    LET r == GetInstanceCall(store, instanceID) IN
    /\ Idle
    /\ UNCHANGED <<catalog, versioned, calls>>
    /\ fault' = "none"
    /\ store' = r.store
    /\ last' = Returned("GetInstance", instanceID, "", NoDetails, r)
    /\ UNCHANGED <<provisioned, bound, orphans, external>>

GetBinding(instanceID, bindingID) ==
    LET r == GetBindingCall(store, instanceID, bindingID) IN
    /\ Idle
    /\ UNCHANGED <<catalog, versioned, calls>>
    /\ fault' = "none"
    /\ store' = r.store
    /\ last' = Returned("GetBinding", instanceID, bindingID, NoDetails, r)
    /\ UNCHANGED <<provisioned, bound, orphans, external>>

\* the caller takes the response
Respond ==
    /\ ~Idle
    /\ last' = NoCall
    /\ UNCHANGED <<catalog, versioned, fault, store, provisioned, bound, orphans, external, calls>>

Next ==
    \/ \E i \in InstanceIDs, d \in ProvisionInputs : Provision(i, d)
    \/ \E i \in InstanceIDs, d \in DeprovisionInputs : Deprovision(i, d)
    \/ \E i \in InstanceIDs, b \in BindingIDs, d \in BindInputs : Bind(i, b, d)
    \/ \E i \in InstanceIDs, b \in BindingIDs : Unbind(i, b)
    \/ \E i \in InstanceIDs : GetInstance(i)
    \/ \E i \in InstanceIDs, b \in BindingIDs : GetBinding(i, b)
    \/ Respond

Spec == Init /\ [][Next]_vars

---------------------------------------------------------------------------
(* Requests in flight at once.  The front end runs each request on its own *)
(* goroutine; a handler makes at most two calls to the store, the get of   *)
(* instanceExists and then its create, update or delete, and other         *)
(* requests' store calls can come between the two.  A request slot goes    *)
(* "idle" -> "write" -> "done" -> "idle", or "idle" -> "done" -> "idle"    *)
(* when the handler returns without a write.                               *)

\* the handler op, run on the store st
HandlerCall(op, st, instanceID, bindingID, details) ==
    CASE op = "Provision" -> ProvisionCall(st, instanceID, details)
      [] op = "Deprovision" -> DeprovisionCall(st, instanceID)
      [] op = "Bind" -> BindCall(st, instanceID, bindingID, details)
      [] op = "Unbind" -> UnbindCall(st, instanceID, bindingID)
      [] op = "GetInstance" -> GetInstanceCall(st, instanceID)
      [] op = "GetBinding" -> GetBindingCall(st, instanceID, bindingID)
      [] op = "Update" -> UpdateCall(st, instanceID, details)
      [] op = "LastOperation" -> LastOperationCall(st, instanceID, details)
      [] op = "LastBindingOperation" ->
            LastBindingOperationCall(st, instanceID, bindingID, details)

\* the handler op calls instanceExists: Provision once it has resolved the plan,
\* the three no-ops never, the others first thing
IssuesGet(op, details) ==
    CASE op = "Provision" -> details.PlanID # "" /\ FindPlan(details.PlanID) # 0
      [] op \in {"Deprovision", "Bind", "Unbind", "GetInstance", "GetBinding"} -> TRUE
      [] op \in {"Update", "LastOperation", "LastBindingOperation"} -> FALSE

\* the store call a handler's write is
WriteKind(op) ==
    CASE op = "Provision" -> "create"
      [] op = "Deprovision" -> "delete"
      [] op \in {"Bind", "Unbind"} -> "update"

\* what the handler of request r does from the store it saw at its get
Intent(c) == HandlerCall(c.op, c.seen, c.instanceID, c.bindingID, c.details)

\* The handler runs up to its write call: plan resolution, the get, the checks on
\* what the get returned.  It has reached a write exactly when, run to its end on
\* the store it saw, it leaves another store.  history: log is the store calls the
\* handler has issued.
Begin(r, op, instanceID, bindingID, details) ==
    LET out == HandlerCall(op, store, instanceID, bindingID, details)
        c == [NoRequest EXCEPT !.op = op, !.instanceID = instanceID,
                               !.bindingID = bindingID, !.details = details,
                               !.log = IF IssuesGet(op, details) THEN <<"get">> ELSE <<>>]
    IN  /\ calls[r].pc = "idle"
        /\ fault # "write"
        /\ calls' = [calls EXCEPT ![r] =
              IF out.store # store
              THEN [c EXCEPT !.pc = "write", !.seen = store, !.reached = TRUE]
              ELSE [c EXCEPT !.pc = "done", !.err = out.err, !.ret = out.ret]]
        /\ fault' = "none"
        /\ UNCHANGED <<catalog, versioned, store, last, provisioned, bound, orphans,
                       external>>

BeginProvision(r, instanceID, details) == Begin(r, "Provision", instanceID, "", details)

BeginDeprovision(r, instanceID, details) == Begin(r, "Deprovision", instanceID, "", details)

BeginBind(r, instanceID, bindingID, details) == Begin(r, "Bind", instanceID, bindingID, details)

BeginUnbind(r, instanceID, bindingID) == Begin(r, "Unbind", instanceID, bindingID, NoDetails)

BeginGetInstance(r, instanceID) == Begin(r, "GetInstance", instanceID, "", NoDetails)

BeginGetBinding(r, instanceID, bindingID) ==
    Begin(r, "GetBinding", instanceID, bindingID, NoDetails)

BeginUpdate(r, instanceID, details) == Begin(r, "Update", instanceID, "", details)

BeginLastOperation(r, instanceID, details) ==
    Begin(r, "LastOperation", instanceID, "", details)

BeginLastBindingOperation(r, instanceID, bindingID, details) ==
    Begin(r, "LastBindingOperation", instanceID, bindingID, details)

\* WriteFailed of a Bind that does not look at the error of its update
WriteFailedBindIgnored(op) ==
    CASE op = "Provision" -> ErrProvisionFailed
      [] op = "Deprovision" -> ErrDeprovisionFailed
      [] op = "Bind" -> NoError
      [] op = "Unbind" -> ErrUnbindFailed

\* the error a handler wraps a failure of its write call in
WriteFailed(op) ==
    CASE op = "Provision" -> ErrProvisionFailed
      [] op = "Deprovision" -> ErrDeprovisionFailed
      [] op = "Bind" -> ErrBindFailed
      [] op = "Unbind" -> ErrUnbindFailed

\* The store's answer to the write of request r.  The claim of an update carries
\* the resource version its get returned: a store that compares versions rejects
\* it when the resource was written since (stale), other stores take it as it is.
StoreConflict(r) == versioned /\ calls[r].stale

StoreWrite(r) ==
    LET c == calls[r]
        claim == Intent(c).store[c.instanceID]
    IN  CASE c.op = "Provision" -> StoreCreate(store, claim)
          [] c.op = "Deprovision" -> StoreDelete(store, c.instanceID)
          [] c.op \in {"Bind", "Unbind"} ->
                IF StoreConflict(r) THEN [store |-> store, err |-> TRUE]
                ELSE StoreUpdate(store, claim)

\* The write call of request r and the handler's return after it.  A write that
\* succeeds makes stale what the requests about to update have read of the same
\* resource; history: a delete that succeeds leaves them with a resource that is
\* gone, and an update or a delete that succeeds disturbs the Provision calls in
\* flight on the same instance.
\* Write that makes its call again when the store has failed it
WriteRetries(r, ops) ==
    LET c == calls[r]
        w == StoreWrite(r)
        out == Intent(c)
    IN  /\ c.pc = "write"
        /\ c.op \in ops
        /\ store' = w.store
        /\ fault' = "none"
        /\ calls' = [calls EXCEPT ![r] =
              IF w.err
              THEN [c EXCEPT !.log = Append(@, WriteKind(c.op))]
              ELSE [c EXCEPT !.pc = "done", !.seen = EmptyMap,
                             !.log = Append(@, WriteKind(c.op)),
                             !.err = out.err, !.ret = out.ret]]
        /\ UNCHANGED <<catalog, versioned, last, provisioned, bound, orphans, external>>

Write(r, ops) ==
    LET c == calls[r]
        w == StoreWrite(r)
        out == Intent(c)
    IN  /\ c.pc = "write"
        /\ c.op \in ops
        /\ store' = w.store
        /\ fault' = "none"
        /\ calls' = [q \in Requests |->
              IF q = r
              THEN [c EXCEPT !.pc = "done", !.seen = EmptyMap,
                             !.log = Append(@, WriteKind(c.op)),
                             !.err = IF w.err THEN WriteFailed(c.op) ELSE out.err,
                             !.ret = IF w.err THEN ZeroRet ELSE out.ret]
              ELSE IF w.err \/ calls[q].instanceID # c.instanceID THEN calls[q]
              ELSE IF calls[q].pc = "write" /\ calls[q].op \in {"Bind", "Unbind"}
              THEN [calls[q] EXCEPT !.stale = TRUE, !.gone = @ \/ c.op = "Deprovision"]
              ELSE IF calls[q].op = "Provision" /\ c.op # "Provision"
              THEN [calls[q] EXCEPT !.disturbed = TRUE]
              ELSE calls[q]]
        /\ UNCHANGED <<catalog, versioned, last, provisioned, bound, orphans, external>>

Create(r) == Write(r, {"Provision"})

Update(r) == Write(r, {"Bind", "Unbind"})

Delete(r) == Write(r, {"Deprovision"})

\* the front end sends the response of request r
Return(r) ==
    /\ calls[r].pc = "done"
    /\ calls' = [calls EXCEPT ![r] = NoRequest]
    /\ UNCHANGED <<catalog, versioned, fault, store, last, provisioned, bound, orphans,
                   external>>

\* what the concurrent callers send, on one instance
RaceInstanceIDs == {"i1"}

\* two Provision requests that differ in plan, size and access mode
RaceProvisionInputs ==
    {d \in ProvisionInputs :
        \/ (d.PlanID = "p1" /\ d.RawParameters = NoParameters)
        \/ (d.PlanID = DefaultPlanID /\ d.RawParameters.kind = "object"
               /\ Member(d.RawParameters, "size") = "2Gi")}

RaceDeprovisionInputs == {d \in DeprovisionInputs : d.PlanID = DefaultPlanID}

RaceBindInputs == {d \in BindInputs : d.RawParameters # MalformedParameters}

InitRace ==
    /\ catalog = DefaultCatalog
    /\ versioned \in BOOLEAN
    /\ fault = "none"
    /\ external = [i \in InstanceIDs |-> "none"]
    /\ calls = [r \in Requests |-> NoRequest]
    /\ store = EmptyMap
    /\ last = NoCall
    /\ provisioned = [i \in InstanceIDs |-> <<>>]
    /\ bound = [i \in InstanceIDs |-> [b \in BindingIDs |-> <<>>]]
    /\ orphans = [i \in InstanceIDs |-> {}]

NextRace ==
    \/ \E r \in Requests, i \in RaceInstanceIDs, d \in RaceProvisionInputs :
          BeginProvision(r, i, d)
    \/ \E r \in Requests, i \in RaceInstanceIDs, d \in RaceDeprovisionInputs :
          BeginDeprovision(r, i, d)
    \/ \E r \in Requests, i \in RaceInstanceIDs, b \in BindingIDs, d \in RaceBindInputs :
          BeginBind(r, i, b, d)
    \/ \E r \in Requests, i \in RaceInstanceIDs, b \in BindingIDs : BeginUnbind(r, i, b)
    \/ \E r \in Requests, i \in RaceInstanceIDs : BeginGetInstance(r, i)
    \/ \E r \in Requests, i \in RaceInstanceIDs, b \in BindingIDs : BeginGetBinding(r, i, b)
    \/ \E r \in Requests : Create(r)
    \/ \E r \in Requests : Update(r)
    \/ \E r \in Requests : Delete(r)
    \/ \E r \in Requests : Return(r)

SpecRace == InitRace /\ [][NextRace]_vars

---------------------------------------------------------------------------
(* One request, call by call.  The nine handlers run as above, one request *)
(* at a time, and the store fails the next call made to it, the get or the *)
(* write, with an I/O error.                                               *)

StoreFailsNext(kind) ==
    /\ fault = "none"
    /\ kind = "get" => \A r \in Requests : calls[r].pc = "idle"
    /\ kind = "write" => \E r \in Requests : calls[r].pc = "write"
    /\ fault' = kind
    /\ UNCHANGED <<catalog, versioned, store, last, provisioned, bound, orphans, external,
                   calls>>

\* the request slot in use, and the instance the lifecycle calls work on; the
\* no-ops are called with every instance identifier
StepRequests == {"r1"}
StepInstanceIDs == {"i1"}

NextSteps ==
    \/ \E r \in StepRequests, i \in StepInstanceIDs, d \in ProvisionInputs :
          BeginProvision(r, i, d)
    \/ \E r \in StepRequests, i \in StepInstanceIDs, d \in RaceDeprovisionInputs :
          BeginDeprovision(r, i, d)
    \/ \E r \in StepRequests, i \in StepInstanceIDs, b \in BindingIDs, d \in BindInputs :
          BeginBind(r, i, b, d)
    \/ \E r \in StepRequests, i \in StepInstanceIDs, b \in BindingIDs : BeginUnbind(r, i, b)
    \/ \E r \in StepRequests, i \in StepInstanceIDs : BeginGetInstance(r, i)
    \/ \E r \in StepRequests, i \in StepInstanceIDs, b \in BindingIDs :
          BeginGetBinding(r, i, b)
    \/ \E r \in StepRequests, i \in InstanceIDs, d \in UpdateInputs : BeginUpdate(r, i, d)
    \/ \E r \in StepRequests, i \in InstanceIDs, d \in PollInputs :
          BeginLastOperation(r, i, d)
    \/ \E r \in StepRequests, i \in InstanceIDs, b \in BindingIDs, d \in PollInputs :
          BeginLastBindingOperation(r, i, b, d)
    \/ \E r \in StepRequests : Create(r)
    \/ \E r \in StepRequests : Update(r)
    \/ \E r \in StepRequests : Delete(r)
    \/ \E r \in StepRequests : Return(r)
    \/ \E kind \in {"get", "write"} : StoreFailsNext(kind)

SpecSteps == Init /\ [][NextSteps]_vars

\* A handler runs on its goroutine until it returns, and the store answers every
\* call made to it, with a result or with an error: a request that is at its write
\* makes it, and a request that is done is answered.
SpecStepsFair ==
    /\ SpecSteps
    /\ \A r \in StepRequests :
          /\ WF_vars(Create(r))
          /\ WF_vars(Update(r))
          /\ WF_vars(Delete(r))
          /\ WF_vars(Return(r))

---------------------------------------------------------------------------
(* Other actors on the namespace.  Between two calls of the broker another *)
(* client of the store deletes the claim of an instance, or creates a      *)
(* claim under the name of one.                                            *)

\* a claim made by hand: no labels, no annotations, no storage class
ForeignClaim(name) ==
    [Name |-> name, Labels |-> EmptyMap, Annotations |-> EmptyMap,
     StorageClassName |-> Nil, AccessModes |-> <<"ReadWriteOnce">>, Storage |-> "1Gi"]

ExternalDelete(instanceID) ==
    /\ Idle
    /\ instanceID \in DOMAIN store
    /\ store' = MapDelete(store, instanceID)
    /\ external' = [external EXCEPT ![instanceID] = "deleted"]
    /\ UNCHANGED <<catalog, versioned, fault, last, provisioned, bound, orphans, calls>>

ExternalCreate(instanceID) ==
    /\ Idle
    /\ instanceID \notin DOMAIN store
    /\ store' = MapPut(store, instanceID, ForeignClaim(instanceID))
    /\ external' = [external EXCEPT ![instanceID] = "created"]
    /\ UNCHANGED <<catalog, versioned, fault, last, provisioned, bound, orphans, calls>>

\* the instance the other actors and the broker's callers both work on
ExternalInstanceIDs == {"i1"}

NextExternal ==
    \/ \E i \in ExternalInstanceIDs, d \in ProvisionInputs : Provision(i, d)
    \/ \E i \in ExternalInstanceIDs, d \in DeprovisionInputs : Deprovision(i, d)
    \/ \E i \in ExternalInstanceIDs, b \in BindingIDs, d \in BindInputs : Bind(i, b, d)
    \/ \E i \in ExternalInstanceIDs, b \in BindingIDs : Unbind(i, b)
    \/ \E i \in ExternalInstanceIDs : GetInstance(i)
    \/ \E i \in ExternalInstanceIDs, b \in BindingIDs : GetBinding(i, b)
    \/ Respond
    \/ \E i \in ExternalInstanceIDs : ExternalDelete(i)
    \/ \E i \in ExternalInstanceIDs : ExternalCreate(i)

SpecExternal == Init /\ [][NextExternal]_vars

---------------------------------------------------------------------------
(* Store failures.  The store, or the network to it, fails one call of the *)
(* next handler call with an I/O error: its get, or its create, update or  *)
(* delete.                                                                 *)

StoreFails(kind) ==
    /\ Idle
    /\ fault = "none"
    /\ fault' = kind
    /\ UNCHANGED <<catalog, versioned, store, last, provisioned, bound, orphans, external,
                   calls>>

\* the instance whose calls meet the failures
FaultInstanceIDs == {"i1"}

NextFaults ==
    \/ \E i \in FaultInstanceIDs, d \in ProvisionInputs : Provision(i, d)
    \/ \E i \in FaultInstanceIDs, d \in DeprovisionInputs : Deprovision(i, d)
    \/ \E i \in FaultInstanceIDs, b \in BindingIDs, d \in BindInputs : Bind(i, b, d)
    \/ \E i \in FaultInstanceIDs, b \in BindingIDs : Unbind(i, b)
    \/ \E i \in FaultInstanceIDs : GetInstance(i)
    \/ \E i \in FaultInstanceIDs, b \in BindingIDs : GetBinding(i, b)
    \/ Respond
    \/ \E kind \in {"get", "write"} : StoreFails(kind)

SpecFaults == Init /\ [][NextFaults]_vars

---------------------------------------------------------------------------
(* The marketplace.  Services translates the configured plans; the broker  *)
(* is constructed with any catalog the configuration file can hold, which  *)
(* is not validated: up to MaxPlans plans, in any order, free or paid.     *)

DefaultServiceName == "barService"

\* a free plan with a description and no storage class
BarePlan ==
    [ID |-> "p2", Name |-> "bare", Description |-> "no storage class",
     StorageClass |-> Nil, Free |-> TRUE,
     DefaultSize |-> "1Gi", DefaultAccessMode |-> "ReadWriteOnce"]

MaxPlans == 4

PlanPool == {DefaultPlanConfiguration, GoldPlan, BarePlan}

Catalogs == UNION {[1..n -> PlanPool] : n \in 0..MaxPlans}

\* Services.  The loop of broker.go:44-51 has one variable plan for all its
\* iterations (go.mod: go 1.14), and every entry's Free is the address of that
\* variable's field: once the loop is over, each entry's Free reads the flag of
\* the plan copied last.
ServicesCall ==
    LET planList == [idx \in 1..Len(Plans) |->
                        [Name |-> Plans[idx].Name,
                         Description |-> Plans[idx].Description,
                         Free |-> Plans[Len(Plans)].Free,
                         ID |-> Plans[idx].ID]]
    IN  [err |-> NoError,
         ret |-> <<[ID |-> DefaultServiceID, Name |-> DefaultServiceName,
                    Bindable |-> TRUE, Plans |-> planList,
                    Tags |-> <<"eirini", "kubernetes", "storage">>,
                    Requires |-> <<"volume_mount">>]>>]

InitCatalog ==
    /\ catalog \in Catalogs
    /\ versioned = FALSE
    /\ fault = "none"
    /\ external = [i \in InstanceIDs |-> "none"]
    /\ calls = [r \in Requests |-> NoRequest]
    /\ store = EmptyMap
    /\ last = NoCall
    /\ provisioned = [i \in InstanceIDs |-> <<>>]
    /\ bound = [i \in InstanceIDs |-> [b \in BindingIDs |-> <<>>]]
    /\ orphans = [i \in InstanceIDs |-> {}]

Services ==
    LET r == ServicesCall IN
    /\ Idle
    /\ last' = [NoCall EXCEPT !.op = "Services", !.err = r.err, !.ret = r.ret, !.pre = store]
    /\ UNCHANGED <<catalog, versioned, fault, store, provisioned, bound, orphans, external,
                   calls>>

NextCatalog ==
    \/ Services
    \/ Respond

SpecCatalog == InitCatalog /\ [][NextCatalog]_vars

---------------------------------------------------------------------------
(* The properties.  They speak of the last completed call: last.pre is the *)
(* store it started from, store the store it left.                         *)

LastOn(ops) == last.op \in ops
LastExisted == last.instanceID \in DOMAIN last.pre
LastPlanRecognized == \E i \in 1..Len(Plans) : Plans[i].ID = last.details.PlanID

\* C1: for an instance identifier with no resource in the store, Deprovision,
\* Bind, Unbind, GetInstance and GetBinding each return InstanceDoesNotExist and
\* leave the whole store, the resources of other instances included, unchanged.
C1_AbsentInstanceDoesNotExist ==
    (LastOn({"Deprovision", "Bind", "Unbind", "GetInstance", "GetBinding"}) /\ ~LastExisted)
        => (last.err = ErrInstanceDoesNotExist /\ store = last.pre)

\* C1 witness: a Bind on an identifier without a resource, while another instance
\* has one, was answered InstanceDoesNotExist.
C1_Witness ==
    /\ last.op = "Bind"
    /\ ~LastExisted
    /\ DOMAIN last.pre # {}
    /\ last.err = ErrInstanceDoesNotExist

\* C2 as stated: Provision of an identifier whose resource exists returns
\* InstanceAlreadyExists and leaves the resource as it was, whatever plan or
\* parameters the call carries.
C2_ExistingAlwaysAlreadyExists ==
    (last.op = "Provision" /\ LastExisted)
        => (last.err = ErrInstanceAlreadyExists /\ store = last.pre)

\* C2 amended: Provision of an identifier whose resource exists returns
\* InstanceAlreadyExists when its plan identifier is one of the catalog, and
\* PlanIDRequired or PlanNotRecognized when it is empty or unknown; in every
\* case the store, hence the existing resource, is the same before and after.
C2_ExistingUnchanged ==
    (last.op = "Provision" /\ LastExisted)
        => /\ store = last.pre
           /\ store[last.instanceID] = last.pre[last.instanceID]
           /\ LastPlanRecognized => last.err = ErrInstanceAlreadyExists
           /\ last.details.PlanID = "" => last.err = ErrPlanIDRequired
           /\ (last.details.PlanID # "" /\ ~LastPlanRecognized)
                 => last.err = ErrPlanNotRecognized

\* C2 witness: a second Provision, with another plan and other parameters than
\* the resource was created with, was answered InstanceAlreadyExists.
C2_Witness ==
    /\ last.op = "Provision"
    /\ LastExisted
    /\ last.err = ErrInstanceAlreadyExists
    /\ last.details.PlanID # last.pre[last.instanceID].Labels["plan-id"]
    /\ last.details.RawParameters.kind = "object"
    /\ DOMAIN last.pre[last.instanceID].Annotations # {}

\* C3: Provision with a plan identifier that no catalog entry has returns
\* PlanNotRecognized and creates nothing: the store is unchanged, and for an
\* identifier that had no resource a following GetInstance returns
\* InstanceDoesNotExist.
C3_UnknownPlanNotRecognized ==
    (last.op = "Provision" /\ last.details.PlanID # "" /\ ~LastPlanRecognized)
        => /\ last.err = ErrPlanNotRecognized
           /\ store = last.pre
           /\ ~LastExisted =>
                GetInstanceCall(store, last.instanceID).err = ErrInstanceDoesNotExist

\* C3 witness: a Provision of an unused identifier with the unknown plan "foo"
\* and well-formed parameters was refused.
C3_Witness ==
    /\ last.op = "Provision"
    /\ last.details.PlanID = "foo"
    /\ last.details.RawParameters.kind = "object"
    /\ ~LastExisted
    /\ last.err = ErrPlanNotRecognized
    /\ last.instanceID \notin DOMAIN store

LastPlan ==
    catalog[CHOOSE i \in 1..Len(catalog) : catalog[i].ID = last.details.PlanID]

LastKey == "eirini-broker-binding-" \o last.bindingID

\* C4 as stated: Provision of an unused identifier with a recognized plan and no
\* parameters succeeds with IsAsync = FALSE, and the store then holds exactly one
\* more resource, named by the identifier, with the plan's storage class and the
\* service, plan, organization and space identifiers of the request as labels.
C4_ProvisionWithoutParametersSucceeds ==
    (/\ last.op = "Provision"
     /\ ~LastExisted
     /\ LastPlanRecognized
     /\ last.details.RawParameters = NoParameters)
        => /\ last.err = NoError
           /\ last.ret.IsAsync = FALSE
           /\ DOMAIN store = (DOMAIN last.pre) \cup {last.instanceID}
           /\ \A j \in DOMAIN last.pre : store[j] = last.pre[j]
           /\ store[last.instanceID].Name = last.instanceID
           /\ store[last.instanceID].StorageClassName = LastPlan.StorageClass
           /\ store[last.instanceID].Labels["service-id"] = last.details.ServiceID
           /\ store[last.instanceID].Labels["plan-id"] = last.details.PlanID
           /\ store[last.instanceID].Labels["organization-id"] = last.details.OrganizationGUID
           /\ store[last.instanceID].Labels["space-id"] = last.details.SpaceGUID

\* C5: as long as an instance's successful Provision has not been followed by a
\* successful Deprovision, GetInstance succeeds and returns the plan and service
\* identifiers that Provision was given, whatever Bind and Unbind calls came between.
C5_GetInstanceReturnsProvisioned ==
    (last.op = "GetInstance" /\ provisioned[last.instanceID] # <<>>)
        => /\ last.err = NoError
           /\ last.ret.PlanID = provisioned[last.instanceID][1].PlanID
           /\ last.ret.ServiceID = provisioned[last.instanceID][1].ServiceID

\* C5 witness: GetInstance answered for a provisioned instance on which one
\* binding is live and another was lost to an earlier Deprovision.
C5_Witness ==
    /\ last.op = "GetInstance"
    /\ provisioned[last.instanceID] # <<>>
    /\ last.err = NoError
    /\ last.ret.PlanID = "p1"
    /\ \E b \in BindingIDs : bound[last.instanceID][b] # <<>>
    /\ orphans[last.instanceID] # {}

\* C6: while a successful Bind has not been followed by an Unbind of the binding
\* or a Deprovision of the instance, GetBinding succeeds and returns the mount
\* (driver, container path, mode, device type, volume id) that Bind returned.
C6_GetBindingReturnsBound ==
    (last.op = "GetBinding" /\ bound[last.instanceID][last.bindingID] # <<>>)
        => /\ last.err = NoError
           /\ last.ret.VolumeMounts = bound[last.instanceID][last.bindingID]

\* C6 witness: GetBinding returned the mount of a binding made with a
\* user-supplied directory next to one made with the default directory.
C6_Witness ==
    /\ last.op = "GetBinding"
    /\ last.err = NoError
    /\ bound[last.instanceID][last.bindingID] # <<>>
    /\ last.ret.VolumeMounts[1].ContainerDir = "/mnt"
    /\ \E b \in BindingIDs :
          /\ bound[last.instanceID][b] # <<>>
          /\ bound[last.instanceID][b][1].ContainerDir = "/var/vcap/data/" \o b

\* C7: Bind with a binding identifier whose annotation is on the instance's
\* resource returns BindingAlreadyExists and changes nothing; the stored mount
\* path stays what it was.
C7_BindExistingBindingAlreadyExists ==
    (/\ last.op = "Bind"
     /\ LastExisted
     /\ LastKey \in DOMAIN last.pre[last.instanceID].Annotations)
        => /\ last.err = ErrBindingAlreadyExists
           /\ store = last.pre
           /\ store[last.instanceID].Annotations[LastKey]
                = last.pre[last.instanceID].Annotations[LastKey]

\* C7 witness: a second Bind that supplied a directory other than the stored one
\* was refused.
C7_Witness ==
    /\ last.op = "Bind"
    /\ LastExisted
    /\ LastKey \in DOMAIN last.pre[last.instanceID].Annotations
    /\ last.err = ErrBindingAlreadyExists
    /\ Member(last.details.RawParameters, "dir") = "/mnt"
    /\ store[last.instanceID].Annotations[LastKey] = "/var/vcap/data/" \o last.bindingID

\* C8: Unbind of a binding identifier without an annotation on an existing
\* instance's resource returns BindingDoesNotExist and changes nothing, so every
\* other binding annotation stays.
C8_UnbindAbsentBindingDoesNotExist ==
    (/\ last.op = "Unbind"
     /\ LastExisted
     /\ LastKey \notin DOMAIN last.pre[last.instanceID].Annotations)
        => /\ last.err = ErrBindingDoesNotExist
           /\ store = last.pre

\* C8 witness: an Unbind of a binding without annotation was refused while
\* another binding of the instance kept its annotation.
C8_Witness ==
    /\ last.op = "Unbind"
    /\ LastExisted
    /\ last.err = ErrBindingDoesNotExist
    /\ DOMAIN store[last.instanceID].Annotations # {}
    /\ bound[last.instanceID][last.bindingID] = <<>>

\* C9: after a successful Deprovision the resource is gone and GetInstance returns
\* InstanceDoesNotExist until the next successful Provision; once the identifier is
\* provisioned again, GetBinding and Unbind of a binding that was live at the
\* Deprovision (and has not been bound again) return BindingDoesNotExist.
C9_DeprovisionRemovesInstanceAndBindings ==
    /\ (last.op = "Deprovision" /\ last.err = NoError)
          => /\ last.instanceID \notin DOMAIN store
             /\ GetInstanceCall(store, last.instanceID).err = ErrInstanceDoesNotExist
    /\ (last.op = "GetInstance" /\ provisioned[last.instanceID] = <<>>)
          => last.err = ErrInstanceDoesNotExist
    /\ (/\ last.op \in {"GetBinding", "Unbind"}
        /\ last.bindingID \in orphans[last.instanceID]
        /\ provisioned[last.instanceID] # <<>>)
          => last.err = ErrBindingDoesNotExist

\* C9 witness: GetBinding of a binding that was live when the instance was
\* deprovisioned, asked after the instance was provisioned again.
C9_Witness ==
    /\ last.op = "GetBinding"
    /\ last.bindingID \in orphans[last.instanceID]
    /\ provisioned[last.instanceID] # <<>>
    /\ last.err = ErrBindingDoesNotExist

\* C10: a successful Bind changes the store only by one more annotation on the
\* resource named by the instance identifier, keyed by the binding identifier,
\* whose value is the user's dir, or /var/vcap/data/<bindingID> when none is
\* given; the other annotations, the labels, the storage class and the rest of
\* the resource, and every other resource, are as before.
C10_BindAddsOneAnnotation ==
    (last.op = "Bind" /\ last.err = NoError)
        => /\ DOMAIN store = DOMAIN last.pre
           /\ \A j \in (DOMAIN store) \ {last.instanceID} : store[j] = last.pre[j]
           /\ LET old == last.pre[last.instanceID]
                  new == store[last.instanceID]
                  dir == Member(last.details.RawParameters, "dir")
              IN  /\ new.Name = old.Name
                  /\ new.Labels = old.Labels
                  /\ new.StorageClassName = old.StorageClassName
                  /\ new.AccessModes = old.AccessModes
                  /\ new.Storage = old.Storage
                  /\ LastKey \notin DOMAIN old.Annotations
                  /\ DOMAIN new.Annotations = (DOMAIN old.Annotations) \cup {LastKey}
                  /\ \A k \in DOMAIN old.Annotations : new.Annotations[k] = old.Annotations[k]
                  /\ new.Annotations[LastKey] =
                        IF dir # "" THEN dir ELSE "/var/vcap/data/" \o last.bindingID

\* C10 witness: a Bind without a directory succeeded on a resource that already
\* carried another binding's annotation, while another instance had a resource.
C10_Witness ==
    /\ last.op = "Bind"
    /\ last.err = NoError
    /\ last.details.RawParameters = NoParameters
    /\ DOMAIN last.pre[last.instanceID].Annotations # {}
    /\ Cardinality(DOMAIN store) = 2

\* C11: a successful Unbind, with no other call on the instance in flight, removes
\* exactly the annotation of its binding: the resource is still there, every other
\* annotation, every label and the rest of the resource are as before, and so is
\* every other resource; a following GetBinding of the binding returns
\* BindingDoesNotExist and a following Bind of it (with well-formed parameters) succeeds.
C11_UnbindRemovesOneAnnotation ==
    (last.op = "Unbind" /\ last.err = NoError)
        => /\ DOMAIN store = DOMAIN last.pre
           /\ last.instanceID \in DOMAIN store
           /\ \A j \in (DOMAIN store) \ {last.instanceID} : store[j] = last.pre[j]
           /\ LET old == last.pre[last.instanceID]
                  new == store[last.instanceID]
              IN  /\ new.Name = old.Name
                  /\ new.Labels = old.Labels
                  /\ new.StorageClassName = old.StorageClassName
                  /\ new.AccessModes = old.AccessModes
                  /\ new.Storage = old.Storage
                  /\ LastKey \in DOMAIN old.Annotations
                  /\ DOMAIN new.Annotations = (DOMAIN old.Annotations) \ {LastKey}
                  /\ \A k \in DOMAIN new.Annotations : new.Annotations[k] = old.Annotations[k]
           /\ GetBindingCall(store, last.instanceID, last.bindingID).err = ErrBindingDoesNotExist
           /\ \A d \in BindInputs :
                 d.RawParameters # MalformedParameters
                    => BindCall(store, last.instanceID, last.bindingID, d).err = NoError

\* C11 witness: an Unbind succeeded on a resource that carried another binding's
\* annotation, which it kept, while another instance had a resource.
C11_Witness ==
    /\ last.op = "Unbind"
    /\ last.err = NoError
    /\ Cardinality(DOMAIN last.pre[last.instanceID].Annotations) = 2
    /\ Cardinality(DOMAIN store[last.instanceID].Annotations) = 1
    /\ Cardinality(DOMAIN store) = 2

\* C12: a successful Deprovision removes exactly the resource named by the instance
\* identifier and leaves every other resource as it was; and Deprovision of an
\* existing resource succeeds whatever plan identifier the call carries: the plan
\* identifier is not compared with the stored plan label.
C12_DeprovisionRemovesOneResource ==
    /\ (last.op = "Deprovision" /\ last.err = NoError)
          => /\ LastExisted
             /\ DOMAIN store = (DOMAIN last.pre) \ {last.instanceID}
             /\ \A j \in DOMAIN store : store[j] = last.pre[j]
    /\ (last.op = "Deprovision" /\ LastExisted) => last.err = NoError

\* C12 witness: a Deprovision carrying a plan identifier other than the resource's
\* plan label removed the resource while another instance kept its own.
C12_Witness ==
    /\ last.op = "Deprovision"
    /\ last.err = NoError
    /\ last.details.PlanID # last.pre[last.instanceID].Labels["plan-id"]
    /\ Cardinality(DOMAIN last.pre) = 2
    /\ Cardinality(DOMAIN store) = 1

\* the resource of an instance is the same in two stores: absent from both, or equal
SameResource(s1, s2, i) ==
    /\ (i \in DOMAIN s1) <=> (i \in DOMAIN s2)
    /\ (i \in DOMAIN s1) => s1[i] = s2[i]

\* what a call gives back to its caller
Result(r) == <<r.err, r.ret>>

\* C13: GetInstance and GetBinding are pure reads.  A step that is one of them
\* leaves the store as it was; and across any step that changes the store and
\* leaves the resource of an instance as it was (a call on another instance),
\* GetInstance and GetBinding of that instance give the same result (the same value
\* or the same error) after the step as before it; a step that leaves the whole
\* store as it was leaves them the same as well, being functions of the store.  So
\* two calls with the same arguments agree when nothing changed the instance
\* between them.
C13_ReadsArePure ==
    [][/\ (Idle /\ last'.op \in {"GetInstance", "GetBinding"}) => store' = store
       /\ \A i \in InstanceIDs :
             (store' # store /\ SameResource(store, store', i))
                => /\ Result(GetInstanceCall(store', i)) = Result(GetInstanceCall(store, i))
                   /\ \A b \in BindingIDs :
                         Result(GetBindingCall(store', i, b))
                            = Result(GetBindingCall(store, i, b))]_vars

\* C13 witness: a GetBinding has returned a mount and left the store as it found
\* it, in a store where the other instance has a resource with a binding of its own.
C13_Witness ==
    /\ last.op = "GetBinding"
    /\ last.err = NoError
    /\ store = last.pre
    /\ Result(GetBindingCall(store, last.instanceID, last.bindingID)) = <<last.err, last.ret>>
    /\ \E j \in (DOMAIN store) \ {last.instanceID} : DOMAIN store[j].Annotations # {}

\* the part of a store that belongs to one instance
Restrict(st, i) == [n \in (DOMAIN st) \cap {i} |-> st[n]]

\* the call that last records, made on the store st
LastCall(st) == HandlerCall(last.op, st, last.instanceID, last.bindingID, last.details)

ValidProvision(c) ==
    /\ c.op = "Provision"
    /\ ProvisionCall(EmptyMap, c.instanceID, c.details).err = NoError

\* two Provision calls of one instance, both returned and not yet answered, with no
\* update or delete of the instance's resource since the first of them began
ProvisionRace(r1, r2) ==
    /\ r1 # r2
    /\ calls[r1].pc = "done" /\ calls[r2].pc = "done"
    /\ ValidProvision(calls[r1]) /\ ValidProvision(calls[r2])
    /\ calls[r1].instanceID = calls[r2].instanceID
    /\ ~calls[r1].disturbed /\ ~calls[r2].disturbed

\* C15: of two concurrent Provision calls for the same instance identifier, in every
\* interleaving at most one returns success; the other then returns an error,
\* ProvisionFailed (the store's create error) when it had passed its existence
\* check before the winner's create and InstanceAlreadyExists when it checked
\* after it; and the store holds the one resource of that name, which is the
\* winner's: its plan, labels, storage class, size and access mode.
C15_CreateRaceHasOneWinner ==
    \A r1, r2 \in Requests :
        ProvisionRace(r1, r2)
            => /\ ~(calls[r1].err = NoError /\ calls[r2].err = NoError)
               /\ calls[r1].err = NoError
                     => /\ calls[r2].err \in {ErrProvisionFailed, ErrInstanceAlreadyExists}
                        /\ calls[r2].err = ErrProvisionFailed <=> calls[r2].reached
                        /\ calls[r1].instanceID \in DOMAIN store
                        /\ store[calls[r1].instanceID] =
                              ProvisionCall(EmptyMap, calls[r1].instanceID,
                                            calls[r1].details).store[calls[r1].instanceID]

\* C15 witness: both calls passed the existence check before either created; the
\* one with plan p1 won and the other, with another plan and size, got ProvisionFailed.
C15_Witness ==
    \E r1, r2 \in Requests :
        /\ ProvisionRace(r1, r2)
        /\ calls[r1].err = NoError
        /\ calls[r1].details.PlanID = "p1"
        /\ calls[r2].err = ErrProvisionFailed
        /\ calls[r2].details.PlanID = DefaultPlanID
        /\ store[calls[r1].instanceID].Labels["plan-id"] = "p1"
        /\ store[calls[r1].instanceID].Storage = "1Gi"

\* request r makes its update call in this step
Updates(r) ==
    /\ calls[r].pc = "write"
    /\ calls[r].op \in {"Bind", "Unbind"}
    /\ calls'[r].pc = "done"

\* the claim request r read, with the annotation of its binding added (Bind) or
\* taken off (Unbind)
WrittenBack(c) ==
    LET read == c.seen[c.instanceID]
        key == "eirini-broker-binding-" \o c.bindingID
        dir == Member(c.details.RawParameters, "dir")
    IN  [read EXCEPT !.Annotations =
            IF c.op = "Unbind" THEN MapDelete(read.Annotations, key)
            ELSE MapPut(read.Annotations, key,
                        IF dir # "" THEN dir ELSE "/var/vcap/data/" \o c.bindingID)]

\* C16: Bind and Unbind write back the whole resource they read, with no guard of
\* their own.  An update that the store accepts leaves the stored resource equal to
\* the claim the request read with its one annotation added or removed, whatever
\* other requests wrote since; and a store that compares no versions accepts it
\* even then.  So two Binds of different bindings that both read before either
\* writes both succeed and leave only one of the two annotations (the witness).
C16_UpdateWritesBackWhatWasRead ==
    [][\A r \in Requests :
          Updates(r)
             => LET c == calls[r]
                    i == calls[r].instanceID
                    rejected == calls'[r].err = WriteFailed(c.op)
                IN  /\ ~rejected => (i \in DOMAIN store' /\ store'[i] = WrittenBack(c))
                    /\ rejected => store' = store
                    /\ (~versioned /\ i \in DOMAIN store) => ~rejected]_vars

\* C16 witness: two Binds of different bindings on the same instance have both
\* returned success, the second wrote the claim it had read before the first
\* wrote, and the annotation of the first is not in the store.
C16_Witness ==
    \E r1, r2 \in Requests :
        /\ r1 # r2
        /\ calls[r1].pc = "done" /\ calls[r2].pc = "done"
        /\ calls[r1].op = "Bind" /\ calls[r2].op = "Bind"
        /\ calls[r1].instanceID = calls[r2].instanceID
        /\ calls[r1].bindingID # calls[r2].bindingID
        /\ calls[r1].err = NoError /\ calls[r2].err = NoError
        /\ calls[r2].stale
        /\ bindingIDAnnotation(calls[r1].bindingID)
              \notin DOMAIN store[calls[r1].instanceID].Annotations
        /\ bindingIDAnnotation(calls[r2].bindingID)
              \in DOMAIN store[calls[r1].instanceID].Annotations

\* C17 as stated: when two Binds on the same instance conflict, the second writing
\* from a read taken before the first wrote, the second returns BindFailed and
\* not success.
C17_ConflictingBindFails ==
    \A r1, r2 \in Requests :
        (/\ r1 # r2
         /\ calls[r1].pc = "done" /\ calls[r2].pc = "done"
         /\ calls[r1].op = "Bind" /\ calls[r2].op = "Bind"
         /\ calls[r1].instanceID = calls[r2].instanceID
         /\ calls[r1].err = NoError
         /\ calls[r2].reached /\ calls[r2].stale)
            => calls[r2].err = ErrBindFailed

\* C17 amended: the broker detects no conflict itself; it reports what the store
\* answers.  When the store rejects the update of a Bind (a store that compares
\* resource versions rejects a write based on a read taken before another write;
\* any store rejects the update of a resource deleted meanwhile), the Bind returns
\* BindFailed and the store is unchanged; and every Bind that returns success has
\* its annotation, with its directory, in the store at the moment it returns.
C17_RejectedUpdateIsBindFailed ==
    [][\A r \in Requests :
          (Updates(r) /\ calls[r].op = "Bind")
             => LET c == calls[r]
                    i == calls[r].instanceID
                    key == "eirini-broker-binding-" \o calls[r].bindingID
                IN  /\ ((versioned /\ c.stale) \/ i \notin DOMAIN store)
                          => (calls'[r].err = ErrBindFailed /\ store' = store)
                    /\ calls'[r].err = NoError
                          => /\ i \in DOMAIN store'
                             /\ key \in DOMAIN store'[i].Annotations
                             /\ store'[i].Annotations[key]
                                   = calls'[r].ret.VolumeMounts[1].ContainerDir]_vars

\* C17 witness: with a store that compares versions, of two Binds that both read
\* before either wrote the first returned success and the second BindFailed, and
\* the store holds the first's annotation and not the second's.
C17_Witness ==
    \E r1, r2 \in Requests :
        /\ r1 # r2
        /\ versioned
        /\ calls[r1].pc = "done" /\ calls[r2].pc = "done"
        /\ calls[r1].op = "Bind" /\ calls[r2].op = "Bind"
        /\ calls[r1].instanceID = calls[r2].instanceID
        /\ calls[r1].err = NoError
        /\ calls[r2].reached /\ calls[r2].stale
        /\ calls[r2].err = ErrBindFailed
        /\ bindingIDAnnotation(calls[r1].bindingID)
              \in DOMAIN store[calls[r1].instanceID].Annotations
        /\ bindingIDAnnotation(calls[r2].bindingID)
              \notin DOMAIN store[calls[r1].instanceID].Annotations

\* C18: the broker keeps nothing between calls; every call decides from what its
\* own get returns.  After another actor deleted an instance's resource, the next
\* Deprovision, Bind, Unbind, GetInstance or GetBinding of it returns
\* InstanceDoesNotExist and a Provision of it (that is valid) succeeds and creates
\* the resource; after another actor created a resource of that name, a Provision
\* of it (with a recognized plan) returns InstanceAlreadyExists and changes nothing.
C18_ExternalMutationIsObserved ==
    /\ (/\ LastOn({"Deprovision", "Bind", "Unbind", "GetInstance", "GetBinding"})
        /\ last.external = "deleted")
          => (last.err = ErrInstanceDoesNotExist /\ store = last.pre)
    /\ (last.op = "Provision" /\ last.external = "deleted" /\ ValidProvision(last))
          => /\ last.err = NoError
             /\ last.instanceID \notin DOMAIN last.pre
             /\ last.instanceID \in DOMAIN store
    /\ (last.op = "Provision" /\ last.external = "created" /\ LastPlanRecognized)
          => /\ last.err = ErrInstanceAlreadyExists
             /\ last.instanceID \in DOMAIN last.pre
             /\ store = last.pre

\* C18 witness: GetBinding of a binding that the broker made on an instance it
\* provisioned and never deprovisioned returned InstanceDoesNotExist, the resource
\* having been deleted by another actor.
C18_Witness ==
    /\ last.op = "GetBinding"
    /\ last.external = "deleted"
    /\ provisioned[last.instanceID] # <<>>
    /\ bound[last.instanceID][last.bindingID] # <<>>
    /\ last.err = ErrInstanceDoesNotExist

\* the error a handler wraps a failure of its get in
GetFailed(op) ==
    CASE op = "Provision" -> "error provisioning"
      [] op = "Deprovision" -> "error deprovisioning"
      [] op = "Bind" -> "error binding"
      [] op = "Unbind" -> "error unbinding"
      [] op = "GetInstance" -> "error getting instance"
      [] op = "GetBinding" -> "error getting binding"

\* the call that last records makes a get: all do, but a Provision that ends at
\* its plan resolution
LastGets ==
    /\ last.op # "none"
    /\ last.op = "Provision" => (last.details.PlanID # "" /\ LastPlanRecognized)

\* C19: no store error is swallowed.  When the get fails with an error other than
\* not-found, each of the six operations returns its infrastructure error (not
\* success, not InstanceDoesNotExist, not InstanceAlreadyExists) and makes no write:
\* the store is as before.  When the create, update or delete that the operation
\* goes on to make fails, it returns the error of that write, never success, and
\* the store is as before.
C19_NoStoreErrorIsSwallowed ==
    /\ (last.fault = "get" /\ LastGets)
          => /\ last.err = GetFailed(last.op)
             /\ last.err \notin {NoError, ErrInstanceDoesNotExist, ErrInstanceAlreadyExists}
             /\ store = last.pre
    /\ (last.fault = "write" /\ last.op # "none" /\ LastCall(last.pre).store # last.pre)
          => /\ last.err = WriteFailed(last.op)
             /\ last.err # NoError
             /\ store = last.pre

\* C19 witness: the get of a Provision with a recognized plan failed while the
\* instance's resource existed, with a binding; the call returned "error
\* provisioning", not InstanceAlreadyExists.
C19_Witness ==
    /\ last.op = "Provision"
    /\ last.fault = "get"
    /\ LastPlanRecognized
    /\ LastExisted
    /\ DOMAIN last.pre[last.instanceID].Annotations # {}
    /\ last.err = ErrProvisionFailed

\* C20 as stated: Services returns exactly one service, bindable, whose plan list
\* has the length and the order of the configured catalog; entry i has the id, the
\* name and the description of configured plan i and a free flag equal to that
\* plan's own free flag, also in a catalog of free and paid plans; an empty
\* catalog gives one service with no plans.
C20_ServicesListsCatalog ==
    (last.op = "Services")
        => /\ last.err = NoError
           /\ Len(last.ret) = 1
           /\ last.ret[1].Bindable = TRUE
           /\ Len(last.ret[1].Plans) = Len(catalog)
           /\ \A i \in 1..Len(catalog) :
                 /\ last.ret[1].Plans[i].ID = catalog[i].ID
                 /\ last.ret[1].Plans[i].Name = catalog[i].Name
                 /\ last.ret[1].Plans[i].Description = catalog[i].Description
                 /\ last.ret[1].Plans[i].Free = catalog[i].Free

---------------------------------------------------------------------------
(* The connection to the cluster (cmd/broker/kube_config.go).  At start,   *)
(* main asks kubeConfigGetter.Get for the client configuration, with the   *)
(* value of KUBECONFIG as the explicit path.  What Get finds around it is  *)
(* its input: the two in-cluster variables, what rest.InClusterConfig      *)
(* answers, the current user, the files, the default configuration.        *)

CustomConfigPath == "/etc/broker/kubeconfig"
HomeConfigPath == "/home/vcap/.kube/config"

\* a file: one that reads and parses, one that reads and does not parse, one that
\* does not exist, one that exists and cannot be read
FileStates == {"valid", "invalid", "notexist", "unreadable"}

Environments ==
    [okHost : BOOLEAN, okPort : BOOLEAN,
     inClusterConfig : {"ok", "notexist", "error"},
     currentUser : {"ok", "error"},
     files : [{CustomConfigPath, HomeConfigPath} -> FileStates],
     defaultRESTConfig : {"ok", "error"}]

ErrGetConfig == "failed to get kube config"

InClusterConfig == "in-cluster"
DefaultRESTConfig == "default"

\* what Get returns: the configuration (named by where it comes from; "" is no
\* configuration) or the error
KubeConfig(c) == [err |-> NoError, ret |-> [config |-> c]]
GetConfigError == [err |-> ErrGetConfig, ret |-> [config |-> ""]]

\* Get from the readFile on: the file at configPath, or the default configuration
\* when there is no such file
GetFromFile(env, configPath) ==
    LET f == env.files[configPath] IN
    IF f = "unreadable" THEN GetConfigError
    ELSE IF f = "notexist"
         THEN IF env.defaultRESTConfig = "error" THEN GetConfigError
              ELSE KubeConfig(DefaultRESTConfig)
    ELSE IF f = "invalid" THEN GetConfigError
    ELSE KubeConfig(configPath)

\* GetCall that tries the in-cluster configuration first, then the explicit path,
\* then the home directory's file, then the default configuration
GetCallInClusterFirst(env, customConfigPath) ==
    IF env.okHost /\ env.okPort /\ env.inClusterConfig = "ok"
    THEN KubeConfig(InClusterConfig)
    ELSE IF env.okHost /\ env.okPort /\ env.inClusterConfig = "error"
    THEN GetConfigError
    ELSE IF customConfigPath # "" /\ env.files[customConfigPath] # "notexist"
    THEN GetFromFile(env, customConfigPath)
    ELSE IF env.currentUser = "error" THEN GetConfigError
    ELSE GetFromFile(env, HomeConfigPath)

GetCall(env, customConfigPath) ==
    IF customConfigPath = ""
    THEN IF env.okHost /\ env.okPort /\ env.inClusterConfig = "ok"
         THEN KubeConfig(InClusterConfig)
         ELSE IF env.okHost /\ env.okPort /\ env.inClusterConfig = "error"
         THEN GetConfigError
         ELSE IF env.currentUser = "error" THEN GetConfigError
         ELSE GetFromFile(env, HomeConfigPath)
    ELSE GetFromFile(env, customConfigPath)

Get(env, customConfigPath) ==
    LET r == GetCall(env, customConfigPath) IN
    /\ Idle
    /\ last' = [NoCall EXCEPT !.op = "Get",
                              !.details = [env |-> env, customConfigPath |-> customConfigPath],
                              !.err = r.err, !.ret = r.ret, !.pre = store]
    /\ UNCHANGED <<catalog, versioned, fault, store, provisioned, bound, orphans, external,
                   calls>>

NextKubeConfig ==
    \/ \E env \in Environments, customConfigPath \in {"", CustomConfigPath} :
          Get(env, customConfigPath)
    \/ Respond

SpecKubeConfig == Init /\ [][NextKubeConfig]_vars

---------------------------------------------------------------------------
(* Other catalogs.  The broker is constructed with the one plan of the     *)
(* scenario, or with three plans that differ in what they leave to the     *)
(* request: no default size, no default access mode, no storage class.     *)

PlanCatalogs == {<<GoldPlan>>, <<DefaultPlanConfiguration, GoldPlan, BarePlan>>}

PlanProvisionInputs ==
    [ServiceID : {DefaultServiceID}, PlanID : {"foo", DefaultPlanID, "p1", "p2"},
     OrganizationGUID : {DefaultOrgID}, SpaceGUID : {DefaultSpaceID},
     RawParameters : ProvisionParameters
                        \cup {JSONObject("size" :> "1024Mi"),
                              JSONObject("access_mode" :> "ReadOnlyMany")}]

PlanInstanceIDs == {"i1"}

InitPlans ==
    /\ catalog \in PlanCatalogs
    /\ versioned = FALSE
    /\ fault = "none"
    /\ external = [i \in InstanceIDs |-> "none"]
    /\ calls = [r \in Requests |-> NoRequest]
    /\ store = EmptyMap
    /\ last = NoCall
    /\ provisioned = [i \in InstanceIDs |-> <<>>]
    /\ bound = [i \in InstanceIDs |-> [b \in BindingIDs |-> <<>>]]
    /\ orphans = [i \in InstanceIDs |-> {}]

NextPlans ==
    \/ \E i \in PlanInstanceIDs, d \in PlanProvisionInputs : Provision(i, d)
    \/ \E i \in PlanInstanceIDs, d \in RaceDeprovisionInputs : Deprovision(i, d)
    \/ \E i \in PlanInstanceIDs, b \in BindingIDs, d \in BindInputs : Bind(i, b, d)
    \/ \E i \in PlanInstanceIDs, b \in BindingIDs : Unbind(i, b)
    \/ \E i \in PlanInstanceIDs : GetInstance(i)
    \/ \E i \in PlanInstanceIDs, b \in BindingIDs : GetBinding(i, b)
    \/ Respond

SpecPlans == InitPlans /\ [][NextPlans]_vars

NoOps == {"Update", "LastOperation", "LastBindingOperation"}

\* C21: Update, LastOperation and LastBindingOperation are no-ops.  Whatever the
\* arguments and the store, also for an identifier without a resource and when
\* the store is about to fail its next call, the call returns at once with the
\* empty spec and no error, has issued no store call, and leaves the store as it was.
C21_NoOpsDoNothing ==
    [][\A r \in Requests :
          (calls[r].pc = "idle" /\ calls'[r].op \in NoOps)
             => /\ calls'[r].pc = "done"
                /\ calls'[r].err = NoError
                /\ calls'[r].ret = ZeroRet
                /\ calls'[r].log = <<>>
                /\ ~calls'[r].reached
                /\ store' = store]_vars

\* C21 witness: LastBindingOperation has returned success, with no store call, for
\* an instance identifier without a resource and a binding identifier that is
\* bound on another instance.
C21_Witness ==
    \E r \in Requests :
        /\ calls[r].op = "LastBindingOperation"
        /\ calls[r].pc = "done"
        /\ calls[r].err = NoError
        /\ calls[r].log = <<>>
        /\ calls[r].instanceID \notin DOMAIN store
        /\ \E j \in DOMAIN store :
              bindingIDAnnotation(calls[r].bindingID) \in DOMAIN store[j].Annotations

\* the resource the scenario's Provision creates
ScenarioClaim ==
    [Name |-> "i1",
     Labels |-> ("service-id" :> DefaultServiceID) @@ ("plan-id" :> "p1")
                @@ ("organization-id" :> DefaultOrgID) @@ ("space-id" :> DefaultSpaceID),
     Annotations |-> EmptyMap,
     StorageClassName |-> "gold",
     AccessModes |-> <<"ReadWriteMany">>,
     Storage |-> "1Gi"]

\* the scenario, step by step, each step from the store the step before it leaves,
\* with key the annotation key of binding "b1"
Scenario(key) ==
    (catalog = <<GoldPlan>>)
        => /\ (/\ last.op = "Provision" /\ last.instanceID = "i1"
               /\ last.details.PlanID = "p1" /\ last.details.RawParameters = NoParameters
               /\ last.pre = EmptyMap)
                 => /\ last.err = NoError
                    /\ DOMAIN store = {"i1"}
                    /\ store["i1"].Name = "i1"
                    /\ store["i1"].Storage = "1Gi"
                    /\ store["i1"].StorageClassName = "gold"
                    /\ store["i1"].AccessModes = <<"ReadWriteMany">>
                    /\ store["i1"] = ScenarioClaim
           /\ (/\ last.op = "Bind" /\ last.instanceID = "i1" /\ last.bindingID = "b1"
               /\ last.details.RawParameters = JSONObject("dir" :> "/mnt")
               /\ last.pre = ("i1" :> ScenarioClaim))
                 => /\ last.err = NoError
                    /\ store = ("i1" :> [ScenarioClaim EXCEPT !.Annotations = (key :> "/mnt")])
                    /\ Len(last.ret.VolumeMounts) = 1
                    /\ last.ret.VolumeMounts[1].Driver = "gold"
                    /\ last.ret.VolumeMounts[1].ContainerDir = "/mnt"
                    /\ last.ret.VolumeMounts[1].Device.VolumeId = "i1"
           /\ (/\ last.op = "Unbind" /\ last.instanceID = "i1" /\ last.bindingID = "b1"
               /\ last.pre = ("i1" :> [ScenarioClaim EXCEPT !.Annotations = (key :> "/mnt")]))
                 => /\ last.err = NoError
                    /\ store = ("i1" :> ScenarioClaim)
           /\ (/\ last.op = "Deprovision" /\ last.instanceID = "i1"
               /\ last.pre = ("i1" :> ScenarioClaim))
                 => /\ last.err = NoError
                    /\ store = EmptyMap

\* C22 as stated: with the catalog of the one plan {id "p1", class "gold", default
\* size "1Gi"}, Provision("i1", "p1", no parameters) creates the resource "i1" with
\* capacity 1Gi, class "gold" and access mode "ReadWriteMany"; Bind("i1", "b1",
\* {"dir": "/mnt"}) adds the annotation "binding-b1" -> "/mnt" and returns the mount
\* {driver "gold", path "/mnt", device "i1"}; Unbind("i1", "b1") removes that
\* annotation; Deprovision("i1") deletes the resource.
C22_ScenarioAsStated == Scenario("binding-b1")

\* C22 amended: the same scenario, where the annotation that Bind adds and Unbind
\* removes has the key "eirini-broker-binding-b1".
C22_Scenario == Scenario("eirini-broker-binding-b1")

\* C22 witness: the scenario's Bind has returned the mount {gold, /mnt, i1} and left
\* the annotation "eirini-broker-binding-b1" -> "/mnt" on the scenario's resource.
C22_Witness ==
    /\ catalog = <<GoldPlan>>
    /\ last.op = "Bind" /\ last.instanceID = "i1" /\ last.bindingID = "b1"
    /\ last.pre = ("i1" :> ScenarioClaim)
    /\ provisioned["i1"] # <<>>
    /\ last.err = NoError
    /\ last.ret.VolumeMounts[1] = VolumeMount("gold", "/mnt", "i1")
    /\ store["i1"].Annotations = ("eirini-broker-binding-b1" :> "/mnt")

\* the size a Provision asks for: the user's, else the plan's default
LastSize ==
    IF Member(last.details.RawParameters, "size") # ""
    THEN Member(last.details.RawParameters, "size")
    ELSE LastPlan.DefaultSize

\* the quantity strings that are well formed
WellFormedSizes == {"1Gi", "2Gi", "1024Mi"}

\* the first check of Provision that fails for the call that last records, in the
\* order of the claim, with the failures of the store's own calls at their places
FirstFailure ==
    IF last.details.PlanID = "" THEN ErrPlanIDRequired
    ELSE IF ~LastPlanRecognized THEN ErrPlanNotRecognized
    ELSE IF last.fault = "get" THEN ErrProvisionFailed
    ELSE IF LastExisted THEN ErrInstanceAlreadyExists
    ELSE IF last.details.RawParameters = MalformedParameters THEN ErrInvalidParameters
    ELSE IF LastSize = "" THEN ErrPlanHasNoDefaultSize
    ELSE IF LastSize \notin WellFormedSizes THEN ErrInvalidQuantity
    ELSE IF last.fault = "write" THEN ErrProvisionFailed
    ELSE NoError

LastAccessMode ==
    IF Member(last.details.RawParameters, "access_mode") # ""
    THEN Member(last.details.RawParameters, "access_mode")
    ELSE IF LastPlan.DefaultAccessMode # "" THEN LastPlan.DefaultAccessMode
    ELSE "ReadWriteMany"

\* the quantity a well-formed size string stands for, in its canonical form
Canonical(size) == IF size = "1024Mi" THEN "1Gi" ELSE size

C25_BindWritesBeforeItValidates ==
    (/\ last.op = "Bind"
     /\ LastExisted
     /\ last.pre[last.instanceID].StorageClassName = Nil
     /\ LastKey \notin DOMAIN last.pre[last.instanceID].Annotations
     /\ last.details.RawParameters # MalformedParameters)
        => /\ last.err = ErrNilStorageClass
           /\ last.ret = ZeroRet
           /\ store # last.pre
           /\ store[last.instanceID] =
                 [last.pre[last.instanceID] EXCEPT !.Annotations =
                     MapPut(@, LastKey,
                            IF Member(last.details.RawParameters, "dir") # ""
                            THEN Member(last.details.RawParameters, "dir")
                            ELSE "/var/vcap/data/" \o last.bindingID)]
           /\ \A d \in BindInputs :
                 BindCall(store, last.instanceID, last.bindingID, d).err
                    = ErrBindingAlreadyExists
           /\ GetBindingCall(store, last.instanceID, last.bindingID).err = ErrNilStorageClass

\* C25 witness: a Bind with the directory /mnt on a resource that the broker
\* provisioned with the plan p2, which has no storage class, failed and left its
\* annotation next to another one.
C25_Witness ==
    /\ last.op = "Bind"
    /\ last.err = ErrNilStorageClass
    /\ provisioned[last.instanceID] # <<>>
    /\ provisioned[last.instanceID][1].PlanID = "p2"
    /\ LastKey \notin DOMAIN last.pre[last.instanceID].Annotations
    /\ Cardinality(DOMAIN store[last.instanceID].Annotations) = 2
    /\ store[last.instanceID].Annotations[LastKey] = "/mnt"
    /\ bound[last.instanceID][last.bindingID] = <<>>

\* request r ends its write call in this step with success, as a handler op on instance i
Succeeds(r, op, i) ==
    /\ calls[r].pc = "write"
    /\ calls[r].op = op
    /\ calls[r].instanceID = i
    /\ calls'[r].pc = "done"
    /\ calls'[r].err = NoError

\* C26 as stated: under every interleaving of Provision, Deprovision, Bind and
\* Unbind calls on one identifier, a Bind or Unbind whose update runs after a
\* concurrent Deprovision deleted the resource it had read returns an error.
C26_UpdateAfterDeleteFails ==
    \A r \in Requests :
        (calls[r].pc = "done" /\ calls[r].op \in {"Bind", "Unbind"}
           /\ calls[r].reached /\ calls[r].gone)
            => calls[r].err # NoError

\* C26 amended: under every interleaving of Provision, Deprovision, Bind and Unbind
\* calls on one identifier, a resource comes into the store only by the create of
\* a Provision that succeeds, and then without annotations, and leaves it only by
\* the delete of a Deprovision that succeeds.  The update of a Bind or Unbind that
\* finds no resource, a Deprovision having deleted it since the call read it, fails
\* with the call's update error and creates nothing; so does, on a store that
\* compares resource versions, the update that finds the resource that a Provision
\* created after that Deprovision.  (A store that compares no versions accepts
\* that update: the witness of the statement above.)
C26_OnlyProvisionCreates ==
    [][/\ \A i \in InstanceIDs :
             /\ (i \notin DOMAIN store /\ i \in DOMAIN store')
                   => /\ \E r \in Requests : Succeeds(r, "Provision", i)
                      /\ store'[i].Annotations = EmptyMap
             /\ (i \in DOMAIN store /\ i \notin DOMAIN store')
                   => \E r \in Requests : Succeeds(r, "Deprovision", i)
       /\ \A r \in Requests :
             (/\ Updates(r)
              /\ \/ calls[r].instanceID \notin DOMAIN store
                 \/ (versioned /\ calls[r].gone))
                => /\ calls'[r].err = WriteFailed(calls[r].op)
                   /\ calls'[r].err # NoError
                   /\ store' = store]_vars

\* C26 witness: on a store that compares no versions, a Bind that had read the
\* resource made its update after a Deprovision had deleted it; the Deprovision
\* returned success, the Bind BindFailed, and the store has no resource.
C26_Witness ==
    \E r1, r2 \in Requests :
        /\ ~versioned
        /\ calls[r1].op = "Deprovision" /\ calls[r1].pc = "done" /\ calls[r1].err = NoError
        /\ calls[r2].op = "Bind" /\ calls[r2].pc = "done" /\ calls[r2].reached
        /\ calls[r2].gone
        /\ calls[r2].log = <<"get", "update">>
        /\ calls[r2].err = ErrBindFailed
        /\ calls[r1].instanceID = calls[r2].instanceID
        /\ store = EmptyMap

\* the store calls a handler call can have issued: none, its get, or its get and
\* then its one write
CallLogs(op) ==
    IF op \in {"Provision", "Deprovision", "Bind", "Unbind"}
    THEN {<<>>, <<"get">>, <<"get", WriteKind(op)>>}
    ELSE {<<>>, <<"get">>}

\* C27: every lifecycle call ends, having issued at most one get and at most one
\* create, update or delete, the get first.  A call whose get or whose write the
\* store fails returns the error and makes no further store call; a call that has
\* returned changes nothing any more: the store changes only in the write step of
\* a call that has not returned.
C27_OneGetOneWriteThenReturn ==
    /\ [](\A r \in Requests :
            /\ calls[r].log \in CallLogs(calls[r].op)
            /\ calls[r].pc = "idle" => calls[r] = NoRequest
            /\ calls[r].pc = "write" => calls[r].log = <<"get">>
            /\ (calls[r].pc = "done" /\ ~calls[r].reached)
                  => calls[r].log \in {<<>>, <<"get">>}
            /\ (calls[r].pc = "done" /\ calls[r].reached)
                  => calls[r].log = <<"get", WriteKind(calls[r].op)>>)
    /\ [][/\ store' # store
               => \E r \in Requests : calls[r].pc = "write" /\ calls'[r].pc = "done"
          /\ \A r \in Requests :
                /\ calls[r].pc = "done" => calls'[r] \in {calls[r], NoRequest}
                /\ (calls[r].pc = "write" /\ calls'[r] # calls[r])
                      => /\ calls'[r].pc = "done"
                         /\ calls'[r].log = <<"get", WriteKind(calls[r].op)>>
                         /\ store' = store => calls'[r].err = WriteFailed(calls[r].op)]_vars
    /\ \A r \in StepRequests : (calls[r].pc = "write") ~> (calls[r].pc = "done")
    /\ \A r \in StepRequests : (calls[r].pc = "done") ~> (calls[r].pc = "idle")

\* C27 witness: a Provision whose create the store failed with an I/O error has
\* returned "error provisioning" after one get and one create, and the store has no
\* resource of the instance.
C27_Witness ==
    \E r \in Requests :
        /\ calls[r].op = "Provision"
        /\ calls[r].pc = "done"
        /\ calls[r].reached
        /\ calls[r].err = ErrProvisionFailed
        /\ calls[r].log = <<"get", "create">>
        /\ calls[r].instanceID \notin DOMAIN store

\* the environment and the explicit path of the Get that last records
LastEnv == last.details.env
LastPath == last.details.customConfigPath

\* the in-cluster strategy applies: both variables are set and the in-cluster
\* configuration is not reported missing
InClusterApplies ==
    LastEnv.okHost /\ LastEnv.okPort /\ LastEnv.inClusterConfig # "notexist"

\* the answer of the strategy that reads the file at path, once it applies
FileAnswer(path) ==
    IF LastEnv.files[path] = "valid" THEN <<NoError, path>> ELSE <<ErrGetConfig, "">>

\* the answer of the last strategy
DefaultAnswer ==
    IF LastEnv.defaultRESTConfig = "ok" THEN <<NoError, "default">> ELSE <<ErrGetConfig, "">>

===========================================================================
